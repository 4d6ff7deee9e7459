---------------------------- MODULE MCTransports ----------------------------
(***************************************************************************)
(* The adapters of a Repo, of which each behaviour is about one: a client  *)
(* and a server joined by WebSockets, by long polls, by server-sent events *)
(* and POSTs or by the WebSockets of the compatible protocol, two peers    *)
(* with WebRTC data channels, Repos on a Bridge, and the life of adapters  *)
(* that Repos, with an adapter manager each, are given and stop.  Bounds:  *)
(* see the instances; the modules say what they count.  The event stream   *)
(* has a second instance, with messages after the hand shake.  Two more:   *)
(* how the WebSocket client tells of its states, and how messages become   *)
(* bytes or JSON and come back.                                            *)
(*                                                                         *)
(* The eight members of which something is proved come first, with their   *)
(* proofs, for any value of their constants; then the others, the          *)
(* composition, its properties and what follows of the whole.              *)
(***************************************************************************)
EXTENDS Integers, Sequences, FiniteSets, FiniteSetTheorems,
        SequenceTheorems, TLAPS

CONSTANTS
  doc, peer, none,
  WsLast, WsAttempts,  \* bound on sockets; reconnect.maxAttempts
  SseLast, SseStarts, SseFailures,  \* bounds: streams, starts, failures
  SseReconnects, SsePosts,          \* attempts to reconnect, to post
  RtcLast, RtcAttaches, RtcStops,   \* bounds: data channels, attaches, stops
  RtcOwn,              \* BOOLEAN: clean-up functions are called while they last
  PollLast, PollData,  \* bounds: polls under way, messages of each side
  PollPosts, PollCuts, \* attempts to post; bound on polls that are cut
  CompatLast, CompatAttempts, CompatLosses,  \* sockets, attempts, losses
  EvWaits, EvSteps,    \* calls of waitForStatus; bound on transitions
  Joined, JoinedStarts,      \* adapters on a Bridge; bound on their starts
  Repos, Servers, Storages,  \* Repos and the adapters they are given
  LifeIds, IdOf,             \* the adapterIds, and that of each adapter
  LifeChannels, LifeCalls,   \* bounds: channels of an adapter, calls
  net, disk

VARIABLES
  adapter,  \* the kind of adapter a behaviour is about
  wsClient, wsStarts, wsSocket, wsCside, wsConnects, wsOnclose, wsSside,
  wsConnection, wsServerChan, wsBroken, wsToClient, wsToServer,
  pollClient, pollLoop, pollPolls, pollConn, pollSChan, pollPosts, pollSent,
  pollGot, pollCuts,
  busyClient, busyStream, busyAnswer, busyConn, busySChan, busyCtl, busyPosts,
  busyCount, busyDropped,
  sseClient, sseStream, sseAnswer, sseConn, sseSChan, sseCtl, ssePosts,
  sseCount, sseDropped,
  started, dc, wire, attached, listening, assembling, loro, rtcModel, rtcMade,
  attaches, stops,
  compatClient, compatCside, hears, compatSside, compatConnection,
  compatStarts, losses,
  registered, bridgeStarts, issued, channelTo, bridgeModel, tasks, requests,
  lifecycle, home, open, lifeMade, channels, adapters, lifeModel, ops, calls,
  status, pending, connected, heard, ready, falsely, wait, met, evGot, steps,
  codecSent, payloads, header, fragments, received, errors

-----------------------------------------------------------------------------
(* The life of adapters, of which the calls that stop them overlap:        *)
(* servers and stores, which two Repos or more are given.                  *)

(* Adapters that accept connections, and storage adapters.                 *)
Parts == Servers \cup Storages
Kind == [a \in Parts |-> IF a \in Servers THEN "server" ELSE "storage"]
(* The servers share an adapterId, and so do the stores.                   *)
SharedIds == [a \in Parts |-> IF a \in Servers THEN net ELSE disk]

Life == INSTANCE AdapterLife WITH
  Adapters <- Parts, Ids <- LifeIds, None <- none, Serial <- TRUE,
  MaxChannels <- LifeChannels, MaxCalls <- LifeCalls, made <- lifeMade,
  model <- lifeModel

(* The call o waits for onStop of adapter a.                               *)
Stops(o, a) == o.phase = "onStop" /\ o.adapter = a

(* The values of the state, and each adapter has its own channels.         *)
LifeTyped ==
  /\ Life!TypeOK
  /\ \A a \in Parts : \A c \in channels[a] : c.adapter = a

(* What the call of an adapter's onStop relies on.                         *)
StopFits(o) ==
  /\ o.adapter \in Parts /\ lifecycle[o.adapter] = "started"
  /\ Kind[o.adapter] = "server" => open[o.adapter] = 0 /\ channels[o.adapter] = {}
  /\ o.kind # "reset" => o.id \in LifeIds /\ adapters[o.repo][o.id] = o.adapter
  /\ o.kind = "shutdown" => o.id \in o.visited
  /\ o.kind = "reset" => \A r \in Repos, i \in LifeIds : adapters[r][i] # o.adapter
(* What a map holds under an id has stopped, or is not there.              *)
Gone(r, i) == adapters[r][i] = none \/ lifecycle[adapters[r][i]] = "stopped"
(* What a call that is under way relies on.                                *)
OpFits(o) ==
  /\ o.kind = "reset" => o.phase = "onStop"
  /\ o.kind = "remove" => o.phase \in {"onStop", "delete"}
  /\ o.kind = "shutdown" => o.phase \in {"onStop", "next"}
  /\ o.phase = "onStop" => StopFits(o)
  /\ o.phase = "delete" => o.id \in LifeIds /\ Gone(o.repo, o.id)
  /\ o.kind # "shutdown" => o.visited = {}
  /\ \A i \in o.visited : Gone(o.repo, i) \/ (o.phase = "onStop" /\ o.id = i)

(* Resets run beside each other and beside one other call.                 *)
Apart(o, p) ==
  \/ o.kind # "reset" /\ p.kind # "reset"
  \/ o.kind = "reset" /\ p.kind = "reset" /\ o.adapter = p.adapter
  => o = p

(* The calls that are under way.                                           *)
OpsInv == (\A o \in ops : OpFits(o)) /\ \A o, p \in ops : Apart(o, p)

(* The call o of Repo r has stopped what is under id i.                    *)
Ended(o, r, i) == o.repo = r /\ (i \in o.visited \/ (o.phase = "delete" /\ o.id = i))
(* What is in a map has that Repo's callbacks, and is started or was       *)
(* stopped by a call that has yet to take it out.                          *)
Mapped(r, i) ==
  adapters[r][i] # none =>
    /\ IdOf[adapters[r][i]] = i /\ home[adapters[r][i]] = r
    /\ lifecycle[adapters[r][i]] = "started" \/ \E o \in ops : Ended(o, r, i)
(* So it is for every Repo and id.                                         *)
MapInv == \A r \in Repos, i \in LifeIds : Mapped(r, i)

(* An adapter that is started is in the map of its Repo, or a reset is     *)
(* stopping it.                                                            *)
Homed(a) ==
  lifecycle[a] = "started" =>
    \/ home[a] \in Repos /\ adapters[home[a]][IdOf[a]] = a
    \/ \E o \in ops : o.kind = "reset" /\ o.adapter = a
(* So it is for every adapter.                                             *)
HomeInv == \A a \in Parts : Homed(a)

(* A channel that Repo r knows is one of an adapter in its map;            *)
Known(r, c) == adapters[r][IdOf[c.adapter]] = c.adapter /\ c \in channels[c.adapter]
(* a channel of an adapter is known to its Repo, or a call stops it.       *)
Told(a, c) ==
  \/ \E o \in ops : Stops(o, a)
  \/ home[a] \in Repos /\ c \in lifeModel[home[a]]
(* So it is for the channels in the models,                                *)
KnownInv == \A r \in Repos : \A c \in lifeModel[r] : Known(r, c)
(* and for those in the directories.                                       *)
ToldInv == \A a \in Parts : \A c \in channels[a] : Told(a, c)

(* An adapter listens once, and not when it is not started.                *)
OpenInv ==
  \A a \in Parts : open[a] <= 1 /\ (lifecycle[a] # "started" => open[a] = 0)

(* The inductive invariant.                                                *)
LifeInv == LifeTyped /\ OpsInv /\ MapInv /\ HomeInv /\ KnownInv /\ ToldInv /\ OpenInv

(* At first no adapter was given to a Repo.                                *)
LEMMA LifeStarts ==
  ASSUME Life!LifeAssumption
  PROVE  Life!Init => LifeInv
BY DEF Life!Init, LifeInv, Life!LifeAssumption, LifeTyped, Life!TypeOK, OpsInv, MapInv, HomeInv, KnownInv, ToldInv, OpenInv, Life!Lifecycles, Mapped, Homed

(* What is assumed of ids and kinds.                                       *)
LEMMA LifeKinds ==
  ASSUME Life!LifeAssumption
  PROVE  none \notin Parts /\ IdOf \in [Parts -> LifeIds] /\ \A a \in Parts : Kind[a] \in {"server", "storage"}
BY DEF Life!LifeAssumption, Kind

(* Where an adapter is: in the map of its home, under its id, only.        *)
LEMMA LifePlaces ==
  ASSUME Life!LifeAssumption, LifeInv
  PROVE  /\ \A r \in Repos, i \in LifeIds : adapters[r][i] # none =>
              adapters[r][i] \in Parts /\ IdOf[adapters[r][i]] = i /\ home[adapters[r][i]] = r
         /\ \A r \in Repos : \A c \in lifeModel[r] :
              /\ c.adapter \in Parts /\ adapters[r][IdOf[c.adapter]] = c.adapter
              /\ home[c.adapter] = r
              /\ c \in channels[c.adapter] /\ lifecycle[c.adapter] = "started"
<1>1. ASSUME NEW r \in Repos, NEW i \in LifeIds, adapters[r][i] # none
      PROVE  adapters[r][i] \in Parts /\ IdOf[adapters[r][i]] = i /\ home[adapters[r][i]] = r
  BY <1>1 DEF LifeInv, LifeTyped, Life!TypeOK, MapInv, Mapped
<1>2. ASSUME NEW r \in Repos, NEW c \in lifeModel[r]
      PROVE  /\ c.adapter \in Parts /\ adapters[r][IdOf[c.adapter]] = c.adapter
             /\ home[c.adapter] = r
             /\ c \in channels[c.adapter] /\ lifecycle[c.adapter] = "started"
  <2>1. c.adapter \in Parts
    BY DEF LifeInv, LifeTyped, Life!TypeOK, Life!Channel
  <2>2. Known(r, c)
    BY DEF LifeInv, KnownInv
  <2>3. lifecycle[c.adapter] = "started"
    BY <2>1, <2>2 DEF Known, LifeInv, LifeTyped, Life!TypeOK
  <2>4. home[c.adapter] = r
    BY <1>1, <2>1, <2>2, LifeKinds DEF Known
  <2>5. QED
    BY <2>1, <2>2, <2>3, <2>4 DEF Known
<1>3. QED
  BY <1>1, <1>2

(* One call stops an adapter; beside a call that is no reset there are     *)
(* only resets.                                                            *)
LEMMA LifeBeside ==
  ASSUME Life!LifeAssumption, LifeInv
  PROVE  /\ \A o, p \in ops : \A a \in Parts : Stops(o, a) /\ Stops(p, a) => o = p
         /\ \A o, p \in ops : o.kind # "reset" /\ p # o => p.kind = "reset"
         /\ \A o \in ops : o.kind = "reset" =>
              o.phase = "onStop" /\ o.visited = {} /\ o.adapter \in Parts
         /\ \A o \in ops : o.kind \in {"remove", "reset", "shutdown"} /\ o.repo \in Repos
<1>0. \A o \in ops : o.kind \in {"remove", "reset", "shutdown"} /\ o.repo \in Repos
  BY DEF LifeInv, LifeTyped, Life!TypeOK, Life!Op
<1>1. \A o, p \in ops : o.kind # "reset" /\ p # o => p.kind = "reset"
  BY DEF LifeInv, OpsInv, Apart
<1>2. \A o \in ops : o.kind = "reset" => o.phase = "onStop" /\ o.visited = {} /\ o.adapter \in Parts
  BY DEF LifeInv, OpsInv, OpFits, StopFits
<1>3. ASSUME NEW o \in ops, NEW p \in ops, NEW a \in Parts, Stops(o, a), Stops(p, a) PROVE o = p
  <2>1. StopFits(o) /\ StopFits(p) /\ Apart(o, p) /\ Apart(p, o)
    BY <1>3 DEF LifeInv, OpsInv, OpFits, Stops
  <2>2. CASE o.kind = "reset" /\ p.kind = "reset"
    BY <2>1, <2>2, <1>3 DEF Apart, Stops
  <2>3. CASE o.kind # "reset" /\ p.kind # "reset"
    BY <2>1, <2>3 DEF Apart
  <2>4. CASE o.kind = "reset" /\ p.kind # "reset"
    BY <2>1, <2>4, <1>0, <1>3 DEF StopFits, Stops
  <2>5. CASE o.kind # "reset" /\ p.kind = "reset"
    BY <2>1, <2>5, <1>0, <1>3 DEF StopFits, Stops
  <2>6. QED
    BY <2>2, <2>3, <2>4, <2>5
<1>4. QED
  BY <1>0, <1>1, <1>2, <1>3

(* The adapters in a map are started as long as the application may call.  *)
LEMMA LifeCallable ==
  ASSUME Life!LifeAssumption, LifeInv, Life!MayCall
  PROVE  /\ \A o \in ops : o.kind = "reset"
         /\ calls' = calls + 1 /\ calls' \in 0 .. LifeCalls /\ calls + 1 \in 1 .. LifeCalls
         /\ \A r \in Repos, i \in LifeIds : adapters[r][i] # none =>
              lifecycle[adapters[r][i]] = "started"
         /\ \A o \in ops : StopFits(o) /\ \A r \in Repos, i \in LifeIds : adapters[r][i] # o.adapter
<1>1. \A o \in ops : o.kind = "reset"
  BY DEF Life!MayCall
<1>2. calls' = calls + 1 /\ calls' \in 0 .. LifeCalls /\ calls + 1 \in 1 .. LifeCalls
  BY DEF Life!MayCall, LifeInv, LifeTyped, Life!TypeOK, Life!LifeAssumption
<1>3. \A o \in ops : o.visited = {} /\ o.phase = "onStop"
  BY <1>1, LifeBeside
<1>4. ASSUME NEW r \in Repos, NEW i \in LifeIds, adapters[r][i] # none
      PROVE  lifecycle[adapters[r][i]] = "started"
  BY <1>3, <1>4 DEF LifeInv, MapInv, Mapped, Ended
<1>5. \A o \in ops : StopFits(o)
  BY <1>1, <1>3 DEF LifeInv, OpsInv, OpFits
<1>6. \A o \in ops : \A r \in Repos, i \in LifeIds : adapters[r][i] # o.adapter
  BY <1>1, <1>5 DEF StopFits
<1>7. QED
  BY <1>1, <1>2, <1>4, <1>5, <1>6

(* What starting adapters makes of the map of their Repo.                  *)
Adds(r, given, begun) ==
  /\ \A q \in Repos : q # r => adapters'[q] = adapters[q]
  /\ \A i \in LifeIds : adapters'[r][i] # none =>
       \/ adapters'[r][i] \in begun /\ IdOf[adapters'[r][i]] = i
       \/ adapters'[r][i] = adapters[r][i]
  /\ \A i \in LifeIds : adapters[r][i] # none => adapters'[r][i] = adapters[r][i]
  /\ \A a \in begun : adapters'[r][IdOf[a]] = a

(* Starting adapters that are not in use keeps the invariant,              *)
LEMMA LifeAdds ==
  ASSUME Life!LifeAssumption, LifeInv, Life!MayCall, ops' = ops, NEW r \in Repos,
         NEW given \in SUBSET Parts, NEW begun \in SUBSET given,
         \A a \in given : Life!MayUse(a), Life!InitializeAndStart(r, given, begun),
         adapters' \in [Repos -> [LifeIds -> Parts \cup {none}]], Adds(r, given, begun)
  PROVE  LifeInv'
<1> DEFINE first == Life!FirstChannels(begun)
<1>1. /\ \A a \in given : lifecycle[a] # "started" /\ open[a] = 0 /\ channels[a] = {}
                           /\ (Kind[a] = "storage" => lifeMade[a] < LifeChannels)
      /\ \A q \in Repos, i \in LifeIds : adapters[q][i] \notin given
      /\ \A o \in ops : o.adapter \in Parts \ given
  <2>1. \A a \in given : lifecycle[a] # "started" /\ (Kind[a] = "storage" => lifeMade[a] < LifeChannels)
    BY DEF Life!MayUse
  <2>2. \A a \in given : open[a] = 0 /\ channels[a] = {}
    BY <2>1 DEF LifeInv, LifeTyped, Life!TypeOK, OpenInv
  <2>3. \A q \in Repos, i \in LifeIds : adapters[q][i] \notin given
    BY <2>1, LifeCallable, LifeKinds
  <2>4. \A o \in ops : o.adapter \in Parts \ given
    BY <2>1, LifeCallable DEF StopFits
  <2>5. QED
    BY <2>1, <2>2, <2>3, <2>4
<1>2. /\ \A a \in Parts : /\ lifecycle'[a] = IF a \in begun THEN "started"
                                             ELSE IF a \in given THEN "initialized" ELSE lifecycle[a]
                          /\ home'[a] = IF a \in given THEN r ELSE home[a]
                          /\ open'[a] = IF a \in begun THEN open[a] + 1 ELSE open[a]
                          /\ channels'[a] = IF a \in given THEN {c \in first : c.adapter = a} ELSE channels[a]
      /\ lifecycle' \in [Parts -> Life!Lifecycles] /\ home' \in [Parts -> Repos \cup {none}]
      /\ open' \in [Parts -> Nat]
  BY DEF Life!InitializeAndStart, Life!ChannelsOfNew, LifeInv, LifeTyped, Life!TypeOK, Life!Lifecycles
<1>3. lifeModel' = [lifeModel EXCEPT ![r] = @ \cup first]
  BY DEF Life!InitializeAndStart
<1>4. first \subseteq Life!Channel /\ \A c \in first : c.adapter \in begun
  <2>1. ASSUME NEW c \in first PROVE c \in Life!Channel /\ c.adapter \in begun
    <3>1. PICK a \in begun : Kind[a] = "storage" /\ c = [adapter |-> a, nr |-> lifeMade[a] + 1]
      BY DEF Life!FirstChannels
    <3>2. lifeMade[a] + 1 \in 1 .. LifeChannels
      BY <1>1, <3>1 DEF LifeInv, LifeTyped, Life!TypeOK, Life!LifeAssumption
    <3>3. QED
      BY <3>1, <3>2 DEF Life!Channel
  <2>2. QED
    BY <2>1
<1>5. lifeMade' \in [Parts -> 0 .. LifeChannels]
  <2>1. lifeMade' = [a \in Parts |-> IF a \in begun /\ Kind[a] = "storage" THEN lifeMade[a] + 1 ELSE lifeMade[a]]
    BY DEF Life!InitializeAndStart
  <2>2. \A a \in Parts : lifeMade[a] \in 0 .. LifeChannels /\ LifeChannels \in Nat
    BY DEF LifeInv, LifeTyped, Life!TypeOK, Life!LifeAssumption
  <2>3. QED
    BY <1>1, <2>1, <2>2
<1>6. channels' = [a \in Parts |-> IF a \in given THEN {c \in first : c.adapter = a} ELSE channels[a]]
  BY DEF Life!InitializeAndStart, Life!ChannelsOfNew
<1>7. /\ \A q \in Repos : q # r => lifeModel'[q] = lifeModel[q]
      /\ lifeModel'[r] = lifeModel[r] \cup first
      /\ \A q \in Repos : lifeModel[q] \subseteq lifeModel'[q]
      /\ \A q \in Repos : lifeModel[q] \subseteq Life!Channel
      /\ lifeModel' \in [Repos -> SUBSET Life!Channel]
  <2>1. lifeModel \in [Repos -> SUBSET Life!Channel]
    BY DEF LifeInv, LifeTyped, Life!TypeOK
  <2> HIDE DEF first
  <2>2. QED
    BY <1>3, <1>4, <2>1
<1> HIDE DEF first
<1>8. LifeTyped'
  <2>1. channels' \in [Parts -> SUBSET Life!Channel]
    BY <1>4, <1>6 DEF LifeInv, LifeTyped, Life!TypeOK
  <2>2. \A a \in Parts : lifecycle'[a] # "started" => channels'[a] = {}
    <3>1. ASSUME NEW a \in Parts, lifecycle'[a] # "started" PROVE channels'[a] = {}
      <4>1. a \notin begun /\ (a \notin given => lifecycle[a] # "started")
        BY <1>2, <3>1
      <4>2. a \in given => {c \in first : c.adapter = a} = {}
        BY <1>4, <4>1
      <4>3. a \notin given => channels[a] = {}
        BY <4>1 DEF LifeInv, LifeTyped, Life!TypeOK
      <4>4. QED
        BY <1>2, <4>2, <4>3
    <3>2. QED
      BY <3>1
  <2>3. \A a \in Parts : \A c \in channels'[a] : c.adapter = a
    BY <1>2 DEF LifeInv, LifeTyped
  <2>4. ops' \subseteq Life!Op /\ calls' \in 0 .. LifeCalls
    BY LifeCallable DEF LifeInv, LifeTyped, Life!TypeOK
  <2>5. QED
    BY <1>2, <1>5, <1>7, <2>1, <2>2, <2>3, <2>4 DEF LifeTyped, Life!TypeOK
<1>9. \A q \in Repos, i \in LifeIds :
         /\ adapters[q][i] # none => adapters'[q][i] = adapters[q][i]
         /\ adapters'[q][i] # none =>
              adapters'[q][i] = adapters[q][i] \/ (q = r /\ adapters'[q][i] \in begun /\ IdOf[adapters'[q][i]] = i)
  BY DEF Adds
<1>10. OpsInv'
  <2>1. ASSUME NEW o \in ops PROVE OpFits(o)'
    <3>1. o.kind = "reset" /\ o.phase = "onStop" /\ o.visited = {} /\ o.adapter \in Parts \ given
      BY <1>1, LifeCallable, LifeBeside
    <3>2. \A q \in Repos, i \in LifeIds : adapters'[q][i] # o.adapter
      BY <1>9, <3>1, LifeCallable, LifeKinds
    <3>3. StopFits(o)'
      BY <1>2, <3>1, <3>2, LifeCallable DEF StopFits
    <3>4. QED
      BY <3>1, <3>3 DEF OpFits
  <2>2. QED
    BY <2>1 DEF LifeInv, OpsInv, Apart
<1>11. MapInv'
  <2>1. ASSUME NEW q \in Repos, NEW i \in LifeIds, adapters'[q][i] # none PROVE Mapped(q, i)'
    <3>1. CASE adapters'[q][i] = adapters[q][i]
      <4>1. adapters[q][i] \in Parts \ given /\ IdOf[adapters[q][i]] = i /\ home[adapters[q][i]] = q
            /\ lifecycle[adapters[q][i]] = "started"
        BY <1>1, <2>1, <3>1, LifePlaces, LifeCallable
      <4>2. QED
        BY <1>2, <3>1, <4>1 DEF Mapped
    <3>2. CASE q = r /\ adapters'[q][i] \in begun /\ IdOf[adapters'[q][i]] = i
      BY <1>2, <3>2 DEF Mapped
    <3>3. QED
      BY <1>9, <2>1, <3>1, <3>2
  <2>2. QED
    BY <2>1 DEF MapInv, Mapped
<1>12. HomeInv'
  <2>1. ASSUME NEW a \in Parts, lifecycle'[a] = "started" PROVE Homed(a)'
    <3>1. CASE a \in begun
      BY <1>2, <3>1 DEF Homed, Adds
    <3>2. CASE a \notin given
      <4>1. lifecycle[a] = "started" /\ home'[a] = home[a] /\ Homed(a)
        BY <1>2, <2>1, <3>2 DEF LifeInv, HomeInv
      <4>2. QED
        BY <1>9, <4>1, LifeKinds DEF Homed
    <3>3. QED
      BY <1>2, <2>1, <3>1, <3>2
  <2>2. QED
    BY <2>1 DEF HomeInv, Homed
<1>13. KnownInv'
  <2>1. ASSUME NEW q \in Repos, NEW c \in lifeModel'[q] PROVE Known(q, c)'
    <3>1. CASE c \in lifeModel[q]
      <4>1. c.adapter \in Parts /\ adapters[q][IdOf[c.adapter]] = c.adapter /\ c \in channels[c.adapter]
        BY <3>1, LifePlaces
      <4>2. c.adapter \notin given /\ IdOf[c.adapter] \in LifeIds /\ c.adapter # none
        BY <1>1, <4>1, LifeKinds
      <4>3. QED
        BY <1>2, <1>9, <4>1, <4>2 DEF Known
    <3>2. CASE c \in first /\ q = r
      BY <1>2, <1>4, <3>2 DEF Known, Adds
    <3>3. QED
      BY <1>7, <3>1, <3>2
  <2>2. QED
    BY <2>1 DEF KnownInv
<1>14. ToldInv'
  <2>1. ASSUME NEW a \in Parts, NEW c \in channels'[a] PROVE Told(a, c)'
    <3>1. CASE a \in given
      <4>1. c \in first /\ home'[a] = r
        BY <1>2, <3>1
      <4>2. c \in lifeModel'[r]
        BY <1>7, <4>1
      <4>3. QED
        BY <4>1, <4>2 DEF Told
    <3>2. CASE a \notin given
      <4>1. Told(a, c) /\ home'[a] = home[a]
        BY <1>2, <3>2 DEF LifeInv, ToldInv
      <4>2. QED
        BY <1>7, <4>1 DEF Told
    <3>3. QED
      BY <3>1, <3>2
  <2>2. QED
    BY <2>1 DEF ToldInv
<1>15. OpenInv'
  <2>1. ASSUME NEW a \in Parts PROVE open'[a] <= 1 /\ (lifecycle'[a] # "started" => open'[a] = 0)
    <3>1. open[a] <= 1 /\ (lifecycle[a] # "started" => open[a] = 0)
      BY DEF LifeInv, OpenInv
    <3>2. CASE a \in begun
      <4>1. open[a] = 0
        BY <1>1, <3>2
      <4>2. open'[a] = open[a] + 1 /\ lifecycle'[a] = "started"
        BY <1>2, <3>2
      <4>3. QED
        BY <4>1, <4>2
    <3>3. CASE a \in given /\ a \notin begun
      <4>1. open[a] = 0
        BY <1>1, <3>3
      <4>2. open'[a] = open[a]
        BY <1>2, <3>3
      <4>3. QED
        BY <4>1, <4>2
    <3>4. CASE a \notin given
      BY <1>2, <3>1, <3>4
    <3>5. QED
      BY <3>2, <3>3, <3>4
  <2>2. QED
    BY <2>1 DEF OpenInv
<1>16. QED
  BY <1>8, <1>10, <1>11, <1>12, <1>13, <1>14, <1>15 DEF LifeInv

(* as addAdapter does,                                                     *)
LEMMA LifeAddAdapter ==
  ASSUME Life!LifeAssumption, LifeInv, NEW r \in Repos, NEW a \in Parts, Life!AddAdapter(r, a)
  PROVE  LifeInv'
<1>1. Life!MayCall /\ Life!MayUse(a) /\ ops' = ops
  BY DEF Life!AddAdapter
<1>2. adapters \in [Repos -> [LifeIds -> Parts \cup {none}]] /\ IdOf[a] \in LifeIds
  BY LifeKinds DEF LifeInv, LifeTyped, Life!TypeOK
<1>3. CASE UNCHANGED <<lifecycle, home, open, lifeMade, channels, adapters, lifeModel>>
  <2>1. calls' \in 0 .. LifeCalls
    BY <1>1, LifeCallable
  <2>2. QED
    BY <1>1, <1>3, <2>1 DEF LifeInv, LifeTyped, Life!TypeOK, OpsInv, OpFits, StopFits, Gone, Apart, MapInv, Mapped,
      Ended, HomeInv, Homed, KnownInv, Known, ToldInv, Told, Stops, OpenInv, Life!Op, Life!Channel
<1>4. CASE /\ adapters[r][IdOf[a]] = none /\ adapters' = [adapters EXCEPT ![r][IdOf[a]] = a]
           /\ Life!InitializeAndStart(r, {a}, {a})
  <2> DEFINE row == [adapters[r] EXCEPT ![IdOf[a]] = a]
  <2>1. row \in [LifeIds -> Parts \cup {none}] /\ adapters' = [adapters EXCEPT ![r] = row]
    BY <1>2, <1>4
  <2>2. row[IdOf[a]] = a /\ \A i \in LifeIds : i # IdOf[a] => row[i] = adapters[r][i]
    BY <1>2
  <2> HIDE DEF row
  <2>3. adapters'[r] = row /\ \A q \in Repos : q # r => adapters'[q] = adapters[q]
    BY <1>2, <2>1
  <2>4. Adds(r, {a}, {a})
    BY <1>4, <2>2, <2>3 DEF Adds
  <2>5. adapters' \in [Repos -> [LifeIds -> Parts \cup {none}]]
    BY <1>2, <2>1
  <2>6. {a} \in SUBSET Parts /\ {a} \in SUBSET {a} /\ \A b \in {a} : Life!MayUse(b)
    BY <1>1
  <2>7. QED
    BY <1>1, <1>4, <2>4, <2>5, <2>6, LifeAdds
<1>5. QED
  BY <1>3, <1>4 DEF Life!AddAdapter

(* and a new Repo.                                                         *)
LEMMA LifeConstruct ==
  ASSUME Life!LifeAssumption, LifeInv, NEW r \in Repos, NEW given \in Life!Sequences2,
         Life!Construct(r, given)
  PROVE  LifeInv'
<1> DEFINE gs == {given[k] : k \in DOMAIN given}
           Of(i) == {k \in DOMAIN given : IdOf[given[k]] = i}
           lastOf == [i \in LifeIds |->
                        IF Of(i) = {} THEN none
                        ELSE given[CHOOSE k \in Of(i) : \A l \in Of(i) : l <= k]]
           begun == {lastOf[i] : i \in LifeIds} \ {none}
<1>1. DOMAIN given \subseteq {1, 2} /\ \A k \in DOMAIN given : given[k] \in Parts
  BY DEF Life!Sequences2
<1>2. ASSUME NEW i \in LifeIds, Of(i) # {}
      PROVE  lastOf[i] \in gs /\ IdOf[lastOf[i]] = i
  <2>1. \E k \in Of(i) : \A l \in Of(i) : l <= k
    <3>1. Of(i) \subseteq {1, 2}
      BY <1>1
    <3> HIDE DEF Of
    <3>2. QED
      BY <1>2, <3>1
  <2>2. PICK k \in Of(i) : lastOf[i] = given[k]
    BY <1>2, <2>1
  <2>3. QED
    BY <2>2
<1>3. /\ Life!MayCall /\ ops' = ops /\ Life!InMap(r) = {} /\ \A a \in gs : Life!MayUse(a)
      /\ adapters' = [adapters EXCEPT ![r] = lastOf] /\ Life!InitializeAndStart(r, gs, begun)
  BY DEF Life!Construct
<1>4. gs \in SUBSET Parts
  BY <1>1
<1>5. ASSUME NEW i \in LifeIds, lastOf[i] # none PROVE lastOf[i] \in gs /\ IdOf[lastOf[i]] = i
  <2>1. Of(i) # {}
    BY <1>5
  <2> HIDE DEF Of, lastOf
  <2>2. QED
    BY <1>2, <2>1
<1>6. ASSUME NEW a \in begun PROVE a \in gs /\ lastOf[IdOf[a]] = a
  <2> HIDE DEF lastOf, gs
  <2>1. PICK i \in LifeIds : a = lastOf[i] /\ a # none
    OBVIOUS
  <2>2. QED
    BY <1>5, <2>1
<1> HIDE DEF lastOf, gs, Of
<1>7. adapters \in [Repos -> [LifeIds -> Parts \cup {none}]]
  BY DEF LifeInv, LifeTyped, Life!TypeOK
<1>8. lastOf \in [LifeIds -> Parts \cup {none}]
  BY <1>4, <1>5 DEF lastOf
<1>9. \A i \in LifeIds : adapters[r][i] = none
  BY <1>3 DEF Life!InMap
<1>10. adapters'[r] = lastOf /\ \A q \in Repos : q # r => adapters'[q] = adapters[q]
  BY <1>3, <1>7
<1>11. Adds(r, gs, begun)
  BY <1>5, <1>6, <1>9, <1>10 DEF Adds
<1>12. adapters' \in [Repos -> [LifeIds -> Parts \cup {none}]]
  BY <1>3, <1>7, <1>8
<1>13. begun \in SUBSET gs
  BY <1>6
<1> HIDE DEF begun
<1>14. QED
  BY <1>3, <1>4, <1>11, <1>12, <1>13, LifeAdds

(* A call that is under way does not hold a listening server: its onStop   *)
(* has closed it.                                                          *)
LEMMA LifeListens ==
  ASSUME Life!LifeAssumption, LifeInv, NEW a \in Parts, Kind[a] # "storage", lifecycle[a] = "started",
         open[a] > 0 \/ channels[a] # {}
  PROVE  /\ \A o \in ops : ~ Stops(o, a)
         /\ home[a] \in Repos /\ adapters[home[a]][IdOf[a]] = a
<1>1. Kind[a] = "server" /\ open[a] \in Nat
  BY LifeKinds DEF LifeInv, LifeTyped, Life!TypeOK
<1>2. \A o \in ops : ~ Stops(o, a)
  BY <1>1 DEF LifeInv, OpsInv, OpFits, StopFits, Stops
<1>3. \A o \in ops : ~ (o.kind = "reset" /\ o.adapter = a)
  BY <1>2, LifeBeside DEF Stops
<1>4. QED
  BY <1>2, <1>3 DEF LifeInv, HomeInv, Homed

(* What a channel that comes or goes may change.                           *)
LEMMA LifeComes ==
  ASSUME Life!LifeAssumption, LifeInv, NEW a \in Parts,
         Kind[a] # "storage", lifecycle[a] = "started", open[a] > 0 \/ channels[a] # {},
         UNCHANGED <<lifecycle, home, open, adapters, ops, calls>>,
         lifeMade' \in [Parts -> 0 .. LifeChannels],
         channels' \in [Parts -> SUBSET Life!Channel],
         \A c \in channels'[a] : c.adapter = a,
         \A b \in Parts : b # a => channels'[b] = channels[b],
         lifeModel' \in [Repos -> SUBSET Life!Channel],
         \A q \in Repos : q # home[a] => lifeModel'[q] = lifeModel[q],
         \A c \in lifeModel'[home[a]] : (c \in lifeModel[home[a]] /\ c.adapter # a) \/ c \in channels'[a],
         \A c \in lifeModel[home[a]] : c.adapter # a => c \in lifeModel'[home[a]],
         channels'[a] \subseteq lifeModel'[home[a]]
  PROVE  LifeInv'
<1>1. (\A o \in ops : ~ Stops(o, a)) /\ home[a] \in Repos /\ adapters[home[a]][IdOf[a]] = a
  BY LifeListens
<1>2. channels' \in [Parts -> SUBSET Life!Channel] /\ \A b \in Parts : b # a => channels'[b] = channels[b]
  OBVIOUS
<1>3. LifeTyped'
  BY <1>2 DEF LifeInv, LifeTyped, Life!TypeOK, Life!Op, Life!Channel
<1>4. OpsInv'
  <2>1. ASSUME NEW o \in ops PROVE OpFits(o)'
    <3>1. OpFits(o) /\ ~ Stops(o, a)
      BY <1>1 DEF LifeInv, OpsInv
    <3>2. o.phase = "onStop" => StopFits(o)'
      BY <1>2, <3>1 DEF OpFits, StopFits, Stops
    <3>3. QED
      BY <3>1, <3>2 DEF OpFits, Gone
  <2>2. QED
    BY <2>1 DEF LifeInv, OpsInv, Apart
<1>5. MapInv' /\ HomeInv' /\ OpenInv'
  BY DEF LifeInv, MapInv, Mapped, Ended, HomeInv, Homed, OpenInv
<1>6. KnownInv'
  <2>1. ASSUME NEW q \in Repos, NEW c \in lifeModel'[q] PROVE Known(q, c)'
    <3>1. CASE c \in lifeModel[q] /\ c.adapter # a
      <4>1. c.adapter \in Parts /\ adapters[q][IdOf[c.adapter]] = c.adapter /\ c \in channels[c.adapter]
        BY <3>1, LifePlaces
      <4>2. QED
        BY <1>2, <3>1, <4>1 DEF Known
    <3>2. CASE c \in channels'[a] /\ q = home[a]
      BY <1>1, <1>2, <3>2 DEF Known
    <3>3. CASE c \in lifeModel[q] /\ q # home[a]
      BY <3>1, <3>3, LifePlaces
    <3>4. QED
      BY <3>1, <3>2, <3>3
  <2>2. QED
    BY <2>1 DEF KnownInv
<1>7. ToldInv'
  <2>1. ASSUME NEW b \in Parts, NEW c \in channels'[b] PROVE Told(b, c)'
    <3>1. CASE b = a
      BY <1>1, <1>2, <3>1 DEF Told
    <3>2. CASE b # a
      <4>1. Told(b, c) /\ c.adapter = b
        BY <1>2, <3>2 DEF LifeInv, ToldInv, LifeTyped
      <4>2. QED
        BY <3>2, <4>1 DEF Told, Stops
    <3>3. QED
      BY <3>1, <3>2
  <2>2. QED
    BY <2>1 DEF ToldInv
<1>8. QED
  BY <1>3, <1>4, <1>5, <1>6, <1>7 DEF LifeInv

(* A connection comes.                                                     *)
LEMMA LifeAccept ==
  ASSUME Life!LifeAssumption, LifeInv, NEW a \in Parts, Life!Accept(a)
  PROVE  LifeInv'
<1> DEFINE c == [adapter |-> a, nr |-> lifeMade[a] + 1]
<1>1. /\ Kind[a] # "storage" /\ lifecycle[a] = "started" /\ open[a] > 0
      /\ UNCHANGED <<lifecycle, home, open, adapters, ops, calls>> /\ lifeMade[a] < LifeChannels
      /\ lifeMade' = [lifeMade EXCEPT ![a] = lifeMade[a] + 1]
      /\ channels' = [channels EXCEPT ![a] = channels[a] \cup {c}]
      /\ lifeModel' = [lifeModel EXCEPT ![home[a]] = lifeModel[home[a]] \cup {c}]
  BY DEF Life!Accept
<1>2. /\ LifeChannels \in Nat /\ lifeMade \in [Parts -> 0 .. LifeChannels]
      /\ channels \in [Parts -> SUBSET Life!Channel] /\ lifeModel \in [Repos -> SUBSET Life!Channel]
  BY DEF LifeInv, LifeTyped, Life!TypeOK, Life!LifeAssumption
<1>3. lifeMade[a] + 1 \in 1 .. LifeChannels /\ lifeMade' \in [Parts -> 0 .. LifeChannels]
  BY <1>1, <1>2
<1>4. c \in Life!Channel /\ c.adapter = a
  BY <1>3 DEF Life!Channel
<1> HIDE DEF c
<1>5. (\A o \in ops : ~ Stops(o, a)) /\ home[a] \in Repos /\ adapters[home[a]][IdOf[a]] = a
  BY <1>1, LifeListens
<1>6. (channels[a] \cup {c}) \in SUBSET Life!Channel /\ \A d \in channels[a] \cup {c} : d.adapter = a
  BY <1>2, <1>4 DEF LifeInv, LifeTyped
<1>7. channels[a] \subseteq lifeModel[home[a]]
  BY <1>5 DEF LifeInv, ToldInv, Told
<1>8. \A d \in lifeModel[home[a]] : d.adapter = a => d \in channels[a]
  BY <1>5, LifePlaces
<1>9. /\ lifeModel' \in [Repos -> SUBSET Life!Channel] /\ lifeModel'[home[a]] = lifeModel[home[a]] \cup {c}
      /\ \A q \in Repos : q # home[a] => lifeModel'[q] = lifeModel[q]
  BY <1>1, <1>2, <1>4, <1>5
<1> DEFINE left == channels[a] \cup {c}
<1>10. /\ left \subseteq lifeModel'[home[a]]
       /\ \A d \in lifeModel'[home[a]] : (d \in lifeModel[home[a]] /\ d.adapter # a) \/ d \in left
       /\ \A d \in lifeModel[home[a]] : d.adapter # a => d \in lifeModel'[home[a]]
  BY <1>7, <1>8, <1>9
<1>11. /\ channels' \in [Parts -> SUBSET Life!Channel] /\ channels'[a] = left
       /\ \A b \in Parts : b # a => channels'[b] = channels[b]
  BY <1>1, <1>2, <1>6
<1>12. \A d \in channels'[a] : d.adapter = a
  BY <1>6, <1>11
<1> HIDE DEF left
<1>13. QED
  BY <1>1, <1>3, <1>9, <1>10, <1>11, <1>12, LifeComes

(* A connection closes.                                                    *)
LEMMA LifeClose ==
  ASSUME Life!LifeAssumption, LifeInv, NEW a \in Parts, NEW c \in channels[a], Life!Close(a, c)
  PROVE  LifeInv'
<1>1. /\ Kind[a] # "storage" /\ lifecycle[a] = "started" /\ channels[a] # {}
      /\ UNCHANGED <<lifecycle, home, open, lifeMade, adapters, ops, calls>>
      /\ channels' = [channels EXCEPT ![a] = channels[a] \ {c}]
      /\ lifeModel' = [lifeModel EXCEPT ![home[a]] = lifeModel[home[a]] \ {c}]
  BY DEF Life!Close
<1>2. /\ lifeMade \in [Parts -> 0 .. LifeChannels]
      /\ channels \in [Parts -> SUBSET Life!Channel] /\ lifeModel \in [Repos -> SUBSET Life!Channel]
  BY DEF LifeInv, LifeTyped, Life!TypeOK
<1>3. (\A o \in ops : ~ Stops(o, a)) /\ home[a] \in Repos /\ adapters[home[a]][IdOf[a]] = a
  BY <1>1, LifeListens
<1>4. (channels[a] \ {c}) \in SUBSET Life!Channel /\ \A d \in channels[a] : d.adapter = a
  BY <1>2 DEF LifeInv, LifeTyped
<1>5. channels[a] \subseteq lifeModel[home[a]]
  BY <1>3 DEF LifeInv, ToldInv, Told
<1>6. \A d \in lifeModel[home[a]] : d.adapter = a => d \in channels[a]
  BY <1>3, LifePlaces
<1>7. /\ lifeModel' \in [Repos -> SUBSET Life!Channel] /\ lifeModel'[home[a]] = lifeModel[home[a]] \ {c}
      /\ \A q \in Repos : q # home[a] => lifeModel'[q] = lifeModel[q]
  BY <1>1, <1>2, <1>3
<1> DEFINE left == channels[a] \ {c}
<1>8. /\ left \subseteq lifeModel'[home[a]]
      /\ \A d \in lifeModel'[home[a]] : (d \in lifeModel[home[a]] /\ d.adapter # a) \/ d \in left
      /\ \A d \in lifeModel[home[a]] : d.adapter # a => d \in lifeModel'[home[a]]
  BY <1>4, <1>5, <1>6, <1>7
<1>9. /\ channels' \in [Parts -> SUBSET Life!Channel] /\ channels'[a] = left
      /\ \A b \in Parts : b # a => channels'[b] = channels[b]
  BY <1>1, <1>2, <1>4
<1>12. \A d \in channels'[a] : d.adapter = a
  BY <1>4, <1>9
<1>10. lifeMade' \in [Parts -> 0 .. LifeChannels]
  BY <1>1, <1>2
<1> HIDE DEF left
<1>11. QED
  BY <1>1, <1>7, <1>8, <1>9, <1>10, <1>12, LifeComes

(* What begins to stop servers of one Repo leaves.                         *)
LEMMA LifeBegins ==
  ASSUME Life!LifeAssumption, LifeInv, NEW as \in SUBSET Parts,
         channels' = Life!DirectoryAfter(as), open' = Life!OpenAfter(as)
  PROVE  /\ channels' \in [Parts -> SUBSET Life!Channel] /\ open' \in [Parts -> Nat]
         /\ \A b \in as : Kind[b] = "server" => channels'[b] = {} /\ open'[b] = 0
         /\ \A b \in Parts : b \notin as \/ Kind[b] # "server" =>
              channels'[b] = channels[b] /\ open'[b] = open[b]
         /\ \A b \in Parts : channels'[b] \subseteq channels[b] /\ open'[b] \in {0, open[b]}
BY DEF Life!DirectoryAfter, Life!OpenAfter, Life!Served, LifeInv, LifeTyped, Life!TypeOK

(* The models lose the channels of what a call of Repo r stops.            *)
Forgets(after, r, as, more) ==
  /\ after \in [Repos -> SUBSET Life!Channel]
  /\ \A q \in Repos : q # r => after[q] = lifeModel[q]
  /\ after[r] \subseteq lifeModel[r]
  /\ \A c \in lifeModel[r] : c.adapter \notin as => c \in after[r]
  /\ \A c \in after[r] : c.adapter \in as => Kind[c.adapter] # "server" /\ c.adapter \notin more
(* That is what BeginStop and a new model do.                              *)
LEMMA LifeForgets ==
  ASSUME Life!LifeAssumption, LifeInv, NEW r \in Repos, NEW as \in SUBSET Parts,
         NEW more \in SUBSET as, \A a \in as : home[a] = r
  PROVE  Forgets(Life!ModelAfter(r, as, more), r, as, more)
<1> DEFINE atHome(q) == UNION {channels[a] : a \in {b \in Life!Served(as) : home[b] = q}}
           atReset == UNION {channels[a] : a \in more}
           lost(q) == atHome(q) \cup (IF q = r THEN atReset ELSE {})
<1>1. \A a \in as : \A c \in channels[a] : c.adapter = a
  BY DEF LifeInv, LifeTyped
<1>2. \A q \in Repos : q # r => lost(q) = {}
  BY DEF Life!Served
<1> DEFINE Lost(q, c) == (\E b \in as : Kind[b] = "server" /\ home[b] = q /\ c \in channels[b])
                         \/ (q = r /\ \E b \in more : c \in channels[b])
<1> DEFINE after == Life!ModelAfter(r, as, more)
<1>0. ASSUME NEW q \in Repos, NEW c PROVE c \in lost(q) <=> Lost(q, c)
  <2>1. Life!Served(as) = {b \in as : Kind[b] = "server"}
    BY DEF Life!Served
  <2>2. c \in atHome(q) <=> \E b \in as : Kind[b] = "server" /\ home[b] = q /\ c \in channels[b]
    BY <2>1
  <2>3. c \in atReset <=> \E b \in more : c \in channels[b]
    OBVIOUS
  <2> HIDE DEF atHome, atReset
  <2>4. QED
    BY <2>2, <2>3
<1>4. after = [q \in Repos |-> lifeModel[q] \ lost(q)]
  BY DEF Life!ModelAfter
<1> HIDE DEF lost, after
<1>3. ASSUME NEW c \in lifeModel[r]
      PROVE  c \in lost(r) <=> (c.adapter \in as /\ (Kind[c.adapter] = "server" \/ c.adapter \in more))
  <2>1. c \in channels[c.adapter]
    BY LifePlaces
  <2>2. ASSUME c.adapter \in as, Kind[c.adapter] = "server" \/ c.adapter \in more PROVE c \in lost(r)
    <3>1. Lost(r, c)
      BY <2>1, <2>2
    <3>2. QED
      BY <1>0, <3>1
  <2>3. ASSUME c \in lost(r) PROVE c.adapter \in as /\ (Kind[c.adapter] = "server" \/ c.adapter \in more)
    <3>1. Lost(r, c)
      BY <1>0, <2>3
    <3>2. QED
      BY <1>1, <3>1
  <2>4. QED
    BY <2>2, <2>3
<1>5. lifeModel \in [Repos -> SUBSET Life!Channel]
  BY DEF LifeInv, LifeTyped, Life!TypeOK
<1>6. \A q \in Repos : after[q] = lifeModel[q] \ lost(q)
  BY <1>4
<1>7. after \in [Repos -> SUBSET Life!Channel]
  BY <1>4, <1>5
<1>8. \A q \in Repos : q # r => after[q] = lifeModel[q]
  BY <1>2, <1>6
<1>9. \A c \in lifeModel[r] : c \in after[r] <=> c \notin lost(r)
  BY <1>6
<1>10. Forgets(after, r, as, more)
  BY <1>3, <1>6, <1>7, <1>8, <1>9 DEF Forgets
<1>11. QED
  BY <1>10 DEF after

(* The call of o begins to stop adapter a of its Repo.                     *)
LEMMA LifeStopping ==
  ASSUME Life!LifeAssumption, LifeInv, NEW n, NEW a \in Parts, n.repo \in Repos, n.id \in LifeIds,
         adapters[n.repo][n.id] = a, lifecycle[a] = "started", n.kind \in {"remove", "shutdown"},
         n.phase = "onStop", n.adapter = a,
         n.kind = "remove" => n.visited = {}, n.kind = "shutdown" => n.id \in n.visited,
         \A i \in n.visited : i = n.id \/ Gone(n.repo, i),
         ops' \subseteq Life!Op, n \in ops', calls' \in 0 .. LifeCalls,
         \A o \in ops' : o = n \/ (o \in ops /\ o.kind = "reset"),
         \A o \in ops : o \in ops' \/
           (o.repo = n.repo /\ o.phase = "next" /\ o.kind # "reset" /\ o.visited \subseteq n.visited),
         UNCHANGED <<lifecycle, home, lifeMade, adapters>>,
         channels' = Life!DirectoryAfter({a}), open' = Life!OpenAfter({a}),
         NEW more, Forgets(lifeModel', n.repo, {a}, more)
  PROVE  LifeInv'
<1> DEFINE r == n.repo
<1>1. /\ channels' \in [Parts -> SUBSET Life!Channel] /\ open' \in [Parts -> Nat]
      /\ Kind[a] = "server" => channels'[a] = {} /\ open'[a] = 0
      /\ \A b \in Parts : b # a \/ Kind[b] # "server" =>
              channels'[b] = channels[b] /\ open'[b] = open[b]
      /\ \A b \in Parts : channels'[b] \subseteq channels[b] /\ open'[b] \in {0, open[b]}
  <2>1. {a} \in SUBSET Parts
    OBVIOUS
  <2>2. /\ channels' \in [Parts -> SUBSET Life!Channel] /\ open' \in [Parts -> Nat]
        /\ \A b \in {a} : Kind[b] = "server" => channels'[b] = {} /\ open'[b] = 0
        /\ \A b \in Parts : b \notin {a} \/ Kind[b] # "server" =>
              channels'[b] = channels[b] /\ open'[b] = open[b]
        /\ \A b \in Parts : channels'[b] \subseteq channels[b] /\ open'[b] \in {0, open[b]}
    BY <2>1, LifeBegins
  <2>3. QED
    BY <2>2
<1>2. home[a] = r /\ IdOf[a] = n.id /\ a # none
  BY LifePlaces, LifeKinds
<1>3. /\ lifeModel' \in [Repos -> SUBSET Life!Channel]
      /\ \A q \in Repos : q # r => lifeModel'[q] = lifeModel[q]
      /\ lifeModel'[r] \subseteq lifeModel[r]
      /\ \A c \in lifeModel[r] : c.adapter # a => c \in lifeModel'[r]
      /\ \A c \in lifeModel'[r] : c.adapter = a => Kind[a] # "server"
  BY DEF Forgets
<1> HIDE DEF r
<1>4. LifeTyped'
  <2>1. \A b \in Parts : (\A c \in channels'[b] : c.adapter = b) /\ (lifecycle'[b] # "started" => channels'[b] = {})
    <3>1. \A b \in Parts : (\A c \in channels[b] : c.adapter = b) /\ (lifecycle[b] # "started" => channels[b] = {})
      BY DEF LifeInv, LifeTyped, Life!TypeOK
    <3>2. \A b \in Parts : channels'[b] \subseteq channels[b]
      BY <1>1
    <3>3. lifecycle' = lifecycle
      OBVIOUS
    <3>4. QED
      BY <3>1, <3>2, <3>3
  <2>2. QED
    BY <1>1, <1>3, <2>1 DEF LifeInv, LifeTyped, Life!TypeOK
<1>5. OpsInv'
  <2>1. ASSUME NEW o \in ops', o # n PROVE OpFits(o)' /\ o.kind = "reset" /\ o \in ops
    <3>1. o \in ops /\ o.kind = "reset" /\ o.phase = "onStop" /\ o.visited = {}
      BY <2>1, LifeBeside
    <3>2. StopFits(o) /\ OpFits(o)
      BY <3>1 DEF LifeInv, OpsInv, OpFits
    <3>3. o.adapter # a
      BY <3>1, <3>2 DEF StopFits
    <3>4. StopFits(o)'
      BY <1>1, <3>2, <3>3 DEF StopFits
    <3>5. QED
      BY <3>1, <3>4 DEF OpFits
  <2>2. OpFits(n)'
    <3>1. StopFits(n)'
      BY <1>1 DEF StopFits
    <3>2. QED
      BY <3>1 DEF OpFits, Gone
  <2>3. \A o, p \in ops' : Apart(o, p)
    BY <2>1 DEF LifeInv, OpsInv, Apart
  <2>4. QED
    BY <2>1, <2>2, <2>3 DEF OpsInv, Apart
<1>6. MapInv'
  <2>1. ASSUME NEW q \in Repos, NEW i \in LifeIds, NEW o \in ops, Ended(o, q, i)
        PROVE  \E p \in ops' : Ended(p, q, i)
    BY <2>1 DEF Ended
  <2>2. QED
    BY <2>1 DEF LifeInv, MapInv, Mapped, Ended
<1>7. HomeInv'
  BY DEF LifeInv, HomeInv, Homed
<1>8. KnownInv'
  <2>1. ASSUME NEW q \in Repos, NEW c \in lifeModel'[q] PROVE Known(q, c)'
    <3>1. /\ c \in lifeModel[q] /\ c.adapter \in Parts /\ adapters[q][IdOf[c.adapter]] = c.adapter
          /\ home[c.adapter] = q /\ c \in channels[c.adapter]
      <4>1. c \in lifeModel[q]
        BY <1>3
      <4>2. QED
        BY <4>1, LifePlaces
    <3>2. c.adapter = a => Kind[a] # "server"
      BY <1>2, <1>3, <3>1
    <3>3. QED
      BY <1>1, <3>1, <3>2 DEF Known
  <2>2. QED
    BY <2>1 DEF KnownInv
<1>9. ToldInv'
  <2>1. ASSUME NEW b \in Parts, NEW c \in channels'[b], b # a PROVE Told(b, c)'
    <3>1. Told(b, c) /\ c.adapter = b
      BY <1>1 DEF LifeInv, ToldInv, LifeTyped
    <3>2. CASE \E o \in ops : Stops(o, b)
      BY <3>2 DEF Told, Stops
    <3>3. CASE home[b] \in Repos /\ c \in lifeModel[home[b]]
      BY <1>3, <2>1, <3>1, <3>3 DEF Told
    <3>4. QED
      BY <3>1, <3>2, <3>3 DEF Told
  <2>2. ASSUME NEW c \in channels'[a] PROVE Told(a, c)'
    BY DEF Told, Stops
  <2>3. QED
    BY <2>1, <2>2 DEF ToldInv
<1>10. OpenInv'
  <2>1. \A b \in Parts : open[b] <= 1 /\ (lifecycle[b] # "started" => open[b] = 0)
    BY DEF LifeInv, OpenInv
  <2>2. ASSUME NEW b \in Parts PROVE open'[b] <= 1 /\ (lifecycle'[b] # "started" => open'[b] = 0)
    <3>1. open'[b] = 0 \/ open'[b] = open[b]
      BY <1>1
    <3>2. lifecycle' = lifecycle
      OBVIOUS
    <3>3. QED
      BY <2>1, <3>1, <3>2
  <2>3. QED
    BY <2>2 DEF OpenInv
<1>11. QED
  BY <1>4, <1>5, <1>6, <1>7, <1>8, <1>9, <1>10 DEF LifeInv

(* removeAdapter up to its first await.                                    *)
LEMMA LifeRemoveAdapter ==
  ASSUME Life!LifeAssumption, LifeInv, NEW r \in Repos, NEW i \in LifeIds, Life!RemoveAdapter(r, i)
  PROVE  LifeInv'
<1> DEFINE a == adapters[r][i]
           n == [nr |-> calls + 1, kind |-> "remove", repo |-> r, id |-> i, adapter |-> a,
                 phase |-> "onStop", visited |-> {}]
<1>1. /\ Life!MayCall /\ a # none /\ ops' = ops \cup {n} /\ UNCHANGED <<lifecycle, home, lifeMade, adapters>>
      /\ channels' = Life!DirectoryAfter({a}) /\ open' = Life!OpenAfter({a})
      /\ lifeModel' = Life!ModelAfter(r, {a}, {a})
  BY DEF Life!RemoveAdapter, Life!BeginStop, Life!RemoveCall, Life!Call
<1>2. a \in Parts /\ lifecycle[a] = "started"
  BY <1>1, LifePlaces, LifeCallable
<1>3. /\ n.repo = r /\ n.id = i /\ n.kind = "remove" /\ n.phase = "onStop" /\ n.adapter = a /\ n.visited = {}
      /\ n \in Life!Op
  BY <1>1, <1>2, LifeCallable DEF Life!Op
<1> HIDE DEF n
<1>4. adapters[n.repo][n.id] = a
  BY <1>3
<1> HIDE DEF a
<1>5. /\ ops' \subseteq Life!Op /\ n \in ops' /\ (\A o \in ops : o \in ops')
      /\ (\A o \in ops' : o = n \/ (o \in ops /\ o.kind = "reset")) /\ calls' \in 0 .. LifeCalls
  BY <1>1, <1>3, LifeCallable DEF LifeInv, LifeTyped, Life!TypeOK
<1>6. Forgets(lifeModel', n.repo, {a}, {a})
  <2>1. {a} \in SUBSET Parts /\ {a} \in SUBSET {a} /\ \A b \in {a} : home[b] = r
    BY <1>1, <1>2, LifePlaces DEF a
  <2>2. Forgets(Life!ModelAfter(r, {a}, {a}), r, {a}, {a})
    BY <2>1, LifeForgets
  <2>3. QED
    BY <1>1, <1>3, <2>2
<1>7. QED
  BY <1>1, <1>2, <1>3, <1>4, <1>5, <1>6, LifeStopping

(* reset stops all and empties the map at once.                            *)
LEMMA LifeReset ==
  ASSUME Life!LifeAssumption, LifeInv, NEW r \in Repos, Life!Reset(r)
  PROVE  LifeInv'
<1> DEFINE as == Life!InMap(r)
           Tell(a) == [nr |-> calls + 1, kind |-> "reset", repo |-> r, id |-> IdOf[a],
                       adapter |-> a, phase |-> "onStop", visited |-> {}]
<1>1. /\ Life!MayCall /\ channels' = Life!DirectoryAfter(as) /\ open' = Life!OpenAfter(as)
      /\ lifeModel' = [Life!ModelAfter(r, as, {}) EXCEPT ![r] = {}]
      /\ ops' = ops \cup {Tell(a) : a \in as}
      /\ adapters' = [adapters EXCEPT ![r] = [i \in LifeIds |-> none]]
      /\ UNCHANGED <<lifecycle, home, lifeMade>>
  BY DEF Life!Reset, Life!NewModel, Life!Call
<1>2. \A a \in as : \E i \in LifeIds : a = adapters[r][i] /\ a # none
  BY DEF Life!InMap
<1>3. \A i \in LifeIds : adapters[r][i] # none => adapters[r][i] \in as
  BY DEF Life!InMap
<1>4. \A a \in as : /\ a \in Parts /\ lifecycle[a] = "started" /\ home[a] = r
                    /\ IdOf[a] \in LifeIds /\ adapters[r][IdOf[a]] = a
  <2>1. ASSUME NEW a \in as
        PROVE  /\ a \in Parts /\ lifecycle[a] = "started" /\ home[a] = r
               /\ IdOf[a] \in LifeIds /\ adapters[r][IdOf[a]] = a
    <3>1. PICK i \in LifeIds : a = adapters[r][i] /\ a # none
      BY <1>2
    <3>2. QED
      BY <1>1, <3>1, LifePlaces, LifeCallable
  <2>2. QED
    BY <2>1
<1>5. \A a \in as : /\ Tell(a) \in Life!Op /\ Tell(a).kind = "reset" /\ Tell(a).adapter = a
                    /\ Tell(a).phase = "onStop" /\ Tell(a).visited = {} /\ Tell(a).repo = r
  BY <1>1, <1>4, LifeCallable DEF Life!Op
<1>11. /\ \A n \in ops' : n \in ops \/
             (/\ n \in Life!Op /\ n.kind = "reset" /\ n.adapter \in as
              /\ n.phase = "onStop" /\ n.visited = {} /\ n.repo = r)
       /\ \A a \in as : \E n \in ops' : n.kind = "reset" /\ n.adapter = a /\ n.phase = "onStop"
       /\ \A n, m \in ops' : n \notin ops /\ m \notin ops /\ n.adapter = m.adapter => n = m
       /\ \A o \in ops : o \in ops'
  <2> HIDE DEF as, Tell
  <2>1. \A n \in ops' : n \in ops \/ \E a \in as : n = Tell(a)
    BY <1>1
  <2>2. \A a \in as : Tell(a) \in ops'
    BY <1>1
  <2>3. \A o \in ops : o \in ops'
    BY <1>1
  <2>4. ASSUME NEW n \in ops', n \notin ops
        PROVE  /\ n \in Life!Op /\ n.kind = "reset" /\ n.adapter \in as
               /\ n.phase = "onStop" /\ n.visited = {} /\ n.repo = r /\ n = Tell(n.adapter)
    <3>1. PICK a \in as : n = Tell(a)
      BY <2>1, <2>4
    <3>2. /\ Tell(a) \in Life!Op /\ Tell(a).kind = "reset" /\ Tell(a).adapter = a
          /\ Tell(a).phase = "onStop" /\ Tell(a).visited = {} /\ Tell(a).repo = r
      BY <1>5
    <3>3. n.adapter = a
      BY <3>1, <3>2
    <3>4. QED
      BY <3>1, <3>2, <3>3
  <2>5. \A a \in as : \E n \in ops' : n.kind = "reset" /\ n.adapter = a /\ n.phase = "onStop"
    BY <1>5, <2>2
  <2>6. \A n, m \in ops' : n \notin ops /\ m \notin ops /\ n.adapter = m.adapter => n = m
    BY <2>4
  <2>7. QED
    BY <2>3, <2>4, <2>5, <2>6
<1> HIDE DEF as, Tell
<1>6. as \in SUBSET Parts
  BY <1>4
<1>7. /\ channels' \in [Parts -> SUBSET Life!Channel] /\ open' \in [Parts -> Nat]
      /\ \A b \in as : Kind[b] = "server" => channels'[b] = {} /\ open'[b] = 0
      /\ \A b \in Parts : b \notin as \/ Kind[b] # "server" =>
              channels'[b] = channels[b] /\ open'[b] = open[b]
      /\ \A b \in Parts : channels'[b] \subseteq channels[b] /\ open'[b] \in {0, open[b]}
  BY <1>1, <1>6, LifeBegins
<1>8. /\ lifeModel' \in [Repos -> SUBSET Life!Channel] /\ lifeModel'[r] = {}
      /\ \A q \in Repos : q # r => lifeModel'[q] = lifeModel[q]
  <2>1. Forgets(Life!ModelAfter(r, as, {}), r, as, {})
    <3>1. {} \in SUBSET as /\ \A a \in as : home[a] = r
      BY <1>4
    <3>2. QED
      BY <1>6, <3>1, LifeForgets
  <2>2. QED
    BY <1>1, <2>1 DEF Forgets
<1>9. /\ adapters' \in [Repos -> [LifeIds -> Parts \cup {none}]]
      /\ \A i \in LifeIds : adapters'[r][i] = none
      /\ \A q \in Repos : q # r => adapters'[q] = adapters[q]
  BY <1>1 DEF LifeInv, LifeTyped, Life!TypeOK
<1>10. \A q \in Repos, i \in LifeIds : adapters'[q][i] \notin as /\ adapters'[q][i] \in {none, adapters[q][i]}
  <2>1. ASSUME NEW q \in Repos, NEW i \in LifeIds PROVE adapters'[q][i] \notin as /\ adapters'[q][i] \in {none, adapters[q][i]}
    <3>1. CASE q = r
      BY <1>4, <1>9, <3>1, LifeKinds
    <3>2. CASE q # r
      <4>1. ASSUME adapters[q][i] \in as PROVE FALSE
        <5>1. adapters[q][i] # none /\ home[adapters[q][i]] = r
          BY <1>4, <4>1, LifeKinds
        <5>2. QED
          BY <3>2, <5>1, LifePlaces
      <4>2. QED
        BY <1>9, <3>2, <4>1
    <3>3. QED
      BY <3>1, <3>2
  <2>2. QED
    BY <2>1
<1>14. LifeTyped'
  <2>1. \A b \in Parts : (\A c \in channels'[b] : c.adapter = b) /\ (lifecycle'[b] # "started" => channels'[b] = {})
    <3>1. \A b \in Parts : (\A c \in channels[b] : c.adapter = b) /\ (lifecycle[b] # "started" => channels[b] = {})
      BY DEF LifeInv, LifeTyped, Life!TypeOK
    <3>2. QED
      BY <1>1, <1>7, <3>1
  <2>2. ops' \subseteq Life!Op /\ calls' \in 0 .. LifeCalls
    <3>1. ops \subseteq Life!Op
      BY DEF LifeInv, LifeTyped, Life!TypeOK
    <3>2. QED
      BY <1>1, <1>11, <3>1, LifeCallable
  <2>3. QED
    BY <1>1, <1>7, <1>8, <1>9, <2>1, <2>2 DEF LifeInv, LifeTyped, Life!TypeOK
<1>15. \A o \in ops : o.kind = "reset" /\ o.phase = "onStop" /\ o.visited = {} /\ StopFits(o) /\ o.adapter \notin as
  <2>1. ASSUME NEW o \in ops PROVE o.kind = "reset" /\ o.phase = "onStop" /\ o.visited = {} /\ StopFits(o)
    BY <1>1, LifeCallable, LifeBeside
  <2>2. ASSUME NEW o \in ops, o.adapter \in as PROVE FALSE
    <3>1. adapters[r][IdOf[o.adapter]] = o.adapter /\ IdOf[o.adapter] \in LifeIds
      BY <1>4, <2>2
    <3>2. QED
      BY <1>1, <3>1, LifeCallable
  <2>3. QED
    BY <2>1, <2>2
<1>16. OpsInv'
  <2>1. ASSUME NEW o \in ops PROVE OpFits(o)'
    <3>1. StopFits(o) /\ o.kind = "reset" /\ o.adapter \notin as /\ o.adapter # none
      BY <1>15, LifeKinds DEF StopFits
    <3>2. \A q \in Repos, i \in LifeIds : adapters'[q][i] # o.adapter
      <4>1. ASSUME NEW q \in Repos, NEW i \in LifeIds PROVE adapters'[q][i] # o.adapter
        <5>1. adapters[q][i] # o.adapter
          BY <3>1 DEF StopFits
        <5>2. QED
          BY <1>10, <3>1, <5>1
      <4>2. QED
        BY <4>1
    <3>3. lifecycle' = lifecycle /\ channels'[o.adapter] = channels[o.adapter] /\ open'[o.adapter] = open[o.adapter]
      BY <1>1, <1>7, <3>1 DEF StopFits
    <3>4. StopFits(o)'
      BY <3>1, <3>2, <3>3 DEF StopFits
    <3>5. QED
      BY <1>15, <3>4 DEF OpFits
  <2>2. ASSUME NEW n \in ops', n \notin ops PROVE OpFits(n)'
    <3>1. n.kind = "reset" /\ n.adapter \in as /\ n.phase = "onStop" /\ n.visited = {}
      BY <1>11, <2>2
    <3>2. \A q \in Repos, i \in LifeIds : adapters'[q][i] # n.adapter
      BY <1>10, <3>1
    <3>3. StopFits(n)'
      BY <1>1, <1>4, <1>7, <3>1, <3>2 DEF StopFits
    <3>4. QED
      BY <3>1, <3>3 DEF OpFits
  <2>3. ASSUME NEW o \in ops', NEW p \in ops', o.kind = "reset", p.kind = "reset", o.adapter = p.adapter PROVE o = p
    <3>1. CASE o \in ops /\ p \in ops
      BY <2>3, <3>1 DEF LifeInv, OpsInv, Apart
    <3>2. CASE o \notin ops /\ p \notin ops
      BY <1>11, <2>3, <3>2
    <3>3. CASE (o \in ops /\ p \notin ops) \/ (o \notin ops /\ p \in ops)
      BY <1>11, <1>15, <2>3, <3>3
    <3>4. QED
      BY <3>1, <3>2, <3>3
  <2>4. \A o \in ops' : o.kind = "reset"
    BY <1>11, <1>15
  <2>5. QED
    BY <2>1, <2>2, <2>3, <2>4 DEF OpsInv, Apart
<1>17. MapInv'
  <2>1. ASSUME NEW q \in Repos, NEW i \in LifeIds, adapters'[q][i] # none PROVE Mapped(q, i)'
    <3>1. adapters'[q][i] = adapters[q][i] /\ Mapped(q, i)
      BY <1>10, <2>1 DEF LifeInv, MapInv
    <3>2. lifecycle[adapters[q][i]] = "started"
      BY <1>1, <2>1, <3>1, LifeCallable
    <3>3. QED
      BY <1>1, <2>1, <3>1, <3>2 DEF Mapped
  <2>2. QED
    BY <2>1 DEF MapInv, Mapped
<1>18. HomeInv'
  <2>1. ASSUME NEW a \in Parts, lifecycle'[a] = "started" PROVE Homed(a)'
    <3>1. Homed(a) /\ lifecycle[a] = "started" /\ home'[a] = home[a]
      BY <1>1, <2>1 DEF LifeInv, HomeInv
    <3>2. CASE a \in as
      BY <1>11, <3>2 DEF Homed
    <3>3. CASE \E o \in ops : o.kind = "reset" /\ o.adapter = a
      BY <1>11, <3>3 DEF Homed
    <3>4. CASE a \notin as /\ home[a] \in Repos /\ adapters[home[a]][IdOf[a]] = a
      <4>1. home[a] # r
        BY <1>3, <3>4, LifeKinds
      <4>2. QED
        BY <1>9, <3>1, <3>4, <4>1 DEF Homed
    <3>5. QED
      BY <3>1, <3>2, <3>3, <3>4 DEF Homed
  <2>2. QED
    BY <2>1 DEF HomeInv, Homed
<1>19. KnownInv'
  <2>1. ASSUME NEW q \in Repos, NEW c \in lifeModel'[q] PROVE Known(q, c)'
    <3>1. q # r /\ c \in lifeModel[q]
      BY <1>8
    <3>2. /\ c.adapter \in Parts /\ adapters[q][IdOf[c.adapter]] = c.adapter
          /\ home[c.adapter] = q /\ c \in channels[c.adapter]
      BY <3>1, LifePlaces
    <3>3. c.adapter \notin as
      BY <1>4, <3>1, <3>2
    <3>4. QED
      BY <1>7, <1>9, <3>1, <3>2, <3>3 DEF Known
  <2>2. QED
    BY <2>1 DEF KnownInv
<1>20. ToldInv'
  <2>1. ASSUME NEW b \in Parts, NEW c \in channels'[b] PROVE Told(b, c)'
    <3>1. Told(b, c) /\ c.adapter = b
      BY <1>7 DEF LifeInv, ToldInv, LifeTyped
    <3>2. CASE b \in as
      BY <1>11, <3>2 DEF Told, Stops
    <3>3. CASE \E o \in ops : Stops(o, b)
      BY <1>11, <3>3 DEF Told, Stops
    <3>4. CASE b \notin as /\ home[b] \in Repos /\ c \in lifeModel[home[b]]
      <4>1. adapters[home[b]][IdOf[b]] = b
        BY <3>1, <3>4, LifePlaces
      <4>2. home[b] # r
        BY <1>3, <3>4, <4>1, LifeKinds
      <4>3. QED
        BY <1>1, <1>8, <3>4, <4>2 DEF Told
    <3>5. QED
      BY <3>1, <3>2, <3>3, <3>4 DEF Told
  <2>2. QED
    BY <2>1 DEF ToldInv
<1>21. OpenInv'
  <2>1. ASSUME NEW b \in Parts PROVE open'[b] <= 1 /\ (lifecycle'[b] # "started" => open'[b] = 0)
    <3>1. open'[b] = 0 \/ open'[b] = open[b]
      BY <1>7
    <3>2. lifecycle' = lifecycle /\ open[b] <= 1 /\ (lifecycle[b] # "started" => open[b] = 0)
      BY <1>1 DEF LifeInv, OpenInv
    <3>3. QED
      BY <3>1, <3>2
  <2>2. QED
    BY <2>1 DEF OpenInv
<1>22. QED
  BY <1>14, <1>16, <1>17, <1>18, <1>19, <1>20, <1>21 DEF LifeInv

(* shutdown before its first adapter.                                      *)
LEMMA LifeShutdown ==
  ASSUME Life!LifeAssumption, LifeInv, NEW r \in Repos, Life!Shutdown(r)
  PROVE  LifeInv'
<1>0. PICK n : n = [nr |-> calls + 1, kind |-> "shutdown", repo |-> r, id |-> none, adapter |-> none,
                    phase |-> "next", visited |-> {}]
  OBVIOUS
<1>1. /\ Life!MayCall /\ ops' = ops \cup {n}
      /\ UNCHANGED <<lifecycle, home, open, lifeMade, channels, adapters, lifeModel>>
  BY <1>0 DEF Life!Shutdown, Life!Call
<1>2. n \in Life!Op /\ n.kind = "shutdown" /\ n.phase = "next" /\ n.visited = {}
  BY <1>0, <1>1, LifeCallable DEF Life!Op
<1>3. \A o \in ops : o \in ops' /\ o.kind = "reset"
  BY <1>1, LifeCallable
<1>4. LifeTyped'
  BY <1>1, <1>2, LifeCallable DEF LifeInv, LifeTyped, Life!TypeOK
<1>5. OpsInv'
  <2>1. \A o \in ops : OpFits(o)'
    BY <1>1 DEF LifeInv, OpsInv, OpFits, StopFits, Gone
  <2>2. OpFits(n)'
    BY <1>2 DEF OpFits
  <2>3. \A o, p \in ops' : Apart(o, p)
    BY <1>1, <1>2, <1>3 DEF LifeInv, OpsInv, Apart
  <2>4. QED
    BY <1>1, <2>1, <2>2, <2>3 DEF OpsInv, Apart
<1>6. MapInv' /\ HomeInv' /\ OpenInv'
  BY <1>1, <1>3 DEF LifeInv, MapInv, Mapped, Ended, HomeInv, Homed, OpenInv
<1>7. KnownInv' /\ ToldInv'
  BY <1>1, <1>3 DEF LifeInv, KnownInv, Known, ToldInv, Told, Stops
<1>8. QED
  BY <1>4, <1>5, <1>6, <1>7 DEF LifeInv

(* shutdown goes on to the next adapter.                                   *)
LEMMA LifeShutdownNext ==
  ASSUME Life!LifeAssumption, LifeInv, NEW o \in ops, Life!ShutdownNext(o)
  PROVE  LifeInv'
<1>1. o.kind = "shutdown" /\ o.phase = "next" /\ OpFits(o) /\ o \in Life!Op /\ o.repo \in Repos
  BY LifeBeside DEF Life!ShutdownNext, LifeInv, OpsInv, LifeTyped, Life!TypeOK
<1>2. PICK i \in LifeIds :
        /\ i \notin o.visited /\ adapters[o.repo][i] # none
        /\ Life!BeginStop(o.repo, {adapters[o.repo][i]}, {})
        /\ ops' = (ops \ {o}) \cup {[o EXCEPT !.id = i, !.adapter = adapters[o.repo][i],
                                              !.phase = "onStop", !.visited = @ \cup {i}]}
  BY DEF Life!ShutdownNext, Life!ToVisit
<1> DEFINE a == adapters[o.repo][i]
           n == [o EXCEPT !.id = i, !.adapter = a, !.phase = "onStop", !.visited = @ \cup {i}]
<1>3. a \in Parts /\ home[a] = o.repo /\ IdOf[a] = i
  BY <1>1, <1>2, LifePlaces
<1>4. \A p \in ops : p # o => p.kind = "reset" /\ p.visited = {} /\ p.phase = "onStop"
  BY <1>1, LifeBeside
<1>5. lifecycle[a] = "started"
  <2>1. \A p \in ops : ~ Ended(p, o.repo, i)
    BY <1>1, <1>2, <1>4 DEF Ended
  <2>2. QED
    BY <1>1, <1>2, <2>1 DEF LifeInv, MapInv, Mapped
<1>6. /\ n \in Life!Op /\ n.id = i /\ n.adapter = a /\ n.phase = "onStop" /\ n.visited = o.visited \cup {i}
      /\ n.kind = "shutdown" /\ n.repo = o.repo
  BY <1>1, <1>3 DEF Life!Op
<1>7. \A j \in n.visited : j = n.id \/ Gone(n.repo, j)
  BY <1>1, <1>6 DEF OpFits
<1>8. /\ UNCHANGED <<lifecycle, home, lifeMade, adapters, calls>> /\ ops' = (ops \ {o}) \cup {n}
      /\ channels' = Life!DirectoryAfter({a}) /\ open' = Life!OpenAfter({a})
      /\ lifeModel' = Life!ModelAfter(o.repo, {a}, {})
  BY <1>2 DEF Life!ShutdownNext, Life!BeginStop
<1> HIDE DEF n
<1>9. adapters[n.repo][n.id] = a
  BY <1>6
<1>10. Forgets(lifeModel', n.repo, {a}, {})
  <2>1. {a} \in SUBSET Parts /\ {} \in SUBSET {a} /\ \A b \in {a} : home[b] = o.repo
    BY <1>3
  <2>2. Forgets(Life!ModelAfter(o.repo, {a}, {}), o.repo, {a}, {})
    BY <1>1, <2>1, LifeForgets
  <2>3. QED
    BY <1>6, <1>8, <2>2
<1> HIDE DEF a
<1>11. /\ ops' \subseteq Life!Op /\ n \in ops' /\ calls' \in 0 .. LifeCalls
       /\ \A p \in ops' : p = n \/ (p \in ops /\ p.kind = "reset")
  BY <1>4, <1>6, <1>8 DEF LifeInv, LifeTyped, Life!TypeOK
<1>12. \A p \in ops : p \in ops' \/
         (p.repo = n.repo /\ p.phase = "next" /\ p.kind # "reset" /\ p.visited \subseteq n.visited)
  BY <1>1, <1>6, <1>8
<1>13. n.repo \in Repos /\ n.id \in LifeIds /\ n.kind \in {"remove", "shutdown"} /\ n.id \in n.visited
       /\ n.kind # "remove"
  BY <1>1, <1>6
<1>14. QED
  BY <1>3, <1>5, <1>6, <1>7, <1>8, <1>9, <1>10, <1>11, <1>12, <1>13, LifeStopping

(* shutdown ends: what is left in its map has stopped.                     *)
LEMMA LifeShutdownEnds ==
  ASSUME Life!LifeAssumption, LifeInv, NEW o \in ops, Life!ShutdownEnds(o)
  PROVE  LifeInv'
<1> DEFINE r == o.repo
<1>1. /\ o.kind = "shutdown" /\ o.phase = "next" /\ OpFits(o) /\ r \in Repos
      /\ ops' = ops \ {o} /\ UNCHANGED <<lifecycle, home, open, lifeMade, channels, calls>>
      /\ adapters' = [adapters EXCEPT ![r] = [i \in LifeIds |-> none]]
      /\ lifeModel' = [lifeModel EXCEPT ![r] = {}]
  BY LifeBeside DEF Life!ShutdownEnds, LifeInv, OpsInv
<1>2. \A i \in LifeIds : Gone(r, i)
  <2>1. \A i \in LifeIds \ o.visited : adapters[r][i] = none
    BY DEF Life!ShutdownEnds, Life!ToVisit
  <2>2. QED
    BY <1>1, <2>1 DEF OpFits, Gone
<1> HIDE DEF r
<1>3. \A p \in ops' : p \in ops /\ p.kind = "reset" /\ p.phase = "onStop" /\ p.visited = {} /\ p.adapter # none
  BY <1>1, LifeBeside, LifeKinds
<1>4. \A p \in ops : p.kind = "reset" \/ Stops(p, p.adapter) => p \in ops'
  BY <1>1 DEF Stops
<1>5. /\ adapters' \in [Repos -> [LifeIds -> Parts \cup {none}]]
      /\ \A i \in LifeIds : adapters'[r][i] = none
      /\ \A q \in Repos : q # r => adapters'[q] = adapters[q]
      /\ lifeModel' \in [Repos -> SUBSET Life!Channel] /\ lifeModel'[r] = {}
      /\ \A q \in Repos : q # r => lifeModel'[q] = lifeModel[q]
  BY <1>1 DEF LifeInv, LifeTyped, Life!TypeOK
<1>6. LifeTyped'
  BY <1>1, <1>5 DEF LifeInv, LifeTyped, Life!TypeOK
<1>7. OpsInv'
  <2>1. ASSUME NEW p \in ops' PROVE OpFits(p)'
    <3>1. StopFits(p) /\ p.kind = "reset" /\ p.adapter # none
      BY <1>3 DEF LifeInv, OpsInv, OpFits
    <3>2. ASSUME NEW q \in Repos, NEW i \in LifeIds PROVE adapters'[q][i] # p.adapter
      <4>1. adapters[q][i] # p.adapter
        BY <3>1 DEF StopFits
      <4>2. QED
        BY <1>5, <3>1, <4>1
    <3>3. StopFits(p)'
      BY <1>1, <3>1, <3>2 DEF StopFits
    <3>4. QED
      BY <1>3, <3>3 DEF OpFits
  <2>2. QED
    BY <1>3, <2>1 DEF LifeInv, OpsInv, Apart
<1>8. MapInv'
  <2>1. ASSUME NEW q \in Repos, NEW i \in LifeIds, adapters'[q][i] # none PROVE Mapped(q, i)'
    <3>1. q # r /\ adapters'[q][i] = adapters[q][i] /\ Mapped(q, i)
      BY <1>5, <2>1 DEF LifeInv, MapInv
    <3>2. \A p \in ops : Ended(p, q, i) => p \in ops'
      BY <1>1, <3>1 DEF Ended, r
    <3>3. QED
      BY <1>1, <3>1, <3>2 DEF Mapped, Ended
  <2>2. QED
    BY <2>1 DEF MapInv, Mapped
<1>9. HomeInv'
  <2>1. ASSUME NEW a \in Parts, lifecycle'[a] = "started" PROVE Homed(a)'
    <3>1. Homed(a) /\ lifecycle[a] = "started" /\ home'[a] = home[a] /\ IdOf[a] \in LifeIds /\ a # none
      BY <1>1, <2>1, LifeKinds DEF LifeInv, HomeInv
    <3>2. CASE \E p \in ops : p.kind = "reset" /\ p.adapter = a
      BY <1>4, <3>2 DEF Homed
    <3>3. CASE home[a] \in Repos /\ adapters[home[a]][IdOf[a]] = a
      <4>1. home[a] # r
        BY <1>2, <3>1, <3>3 DEF Gone
      <4>2. QED
        BY <1>5, <3>1, <3>3, <4>1 DEF Homed
    <3>4. QED
      BY <3>1, <3>2, <3>3 DEF Homed
  <2>2. QED
    BY <2>1 DEF HomeInv, Homed
<1>10. KnownInv'
  <2>1. ASSUME NEW q \in Repos, NEW c \in lifeModel'[q] PROVE Known(q, c)'
    <3>1. q # r /\ c \in lifeModel[q]
      BY <1>5
    <3>2. QED
      BY <1>1, <1>5, <3>1 DEF LifeInv, KnownInv, Known
  <2>2. QED
    BY <2>1 DEF KnownInv
<1>11. ToldInv'
  <2>1. ASSUME NEW b \in Parts, NEW c \in channels'[b] PROVE Told(b, c)'
    <3>1. Told(b, c) /\ c.adapter = b /\ c \in channels[b] /\ home'[b] = home[b]
      BY <1>1 DEF LifeInv, ToldInv, LifeTyped
    <3>2. CASE \E p \in ops : Stops(p, b)
      BY <1>4, <3>2 DEF Told, Stops
    <3>3. CASE home[b] \in Repos /\ c \in lifeModel[home[b]]
      <4>1. adapters[home[b]][IdOf[b]] = b /\ lifecycle[b] = "started" /\ IdOf[b] \in LifeIds /\ b # none
        BY <3>1, <3>3, LifePlaces, LifeKinds
      <4>2. home[b] # r
        BY <1>2, <4>1 DEF Gone
      <4>3. QED
        BY <1>5, <3>1, <3>3, <4>2 DEF Told
    <3>4. QED
      BY <3>1, <3>2, <3>3 DEF Told
  <2>2. QED
    BY <2>1 DEF ToldInv
<1>12. OpenInv'
  BY <1>1 DEF LifeInv, OpenInv
<1>13. QED
  BY <1>6, <1>7, <1>8, <1>9, <1>10, <1>11, <1>12 DEF LifeInv

(* removeAdapter goes on: what it takes out has stopped.                   *)
LEMMA LifeDelete ==
  ASSUME Life!LifeAssumption, LifeInv, NEW o \in ops, Life!Delete(o)
  PROVE  LifeInv'
<1> DEFINE r == o.repo
           k == o.id
<1>1. /\ o.phase = "delete" /\ OpFits(o) /\ r \in Repos /\ k \in LifeIds /\ Gone(r, k)
      /\ ops' = ops \ {o} /\ UNCHANGED <<lifecycle, home, open, lifeMade, channels, lifeModel, calls>>
      /\ adapters' = [adapters EXCEPT ![r][k] = none] /\ o.kind = "remove" /\ o.visited = {}
  BY LifeBeside DEF Life!Delete, Life!WithoutId, LifeInv, OpsInv, OpFits
<1>2. adapters' \in [Repos -> [LifeIds -> Parts \cup {none}]]
      /\ \A q \in Repos, i \in LifeIds : adapters'[q][i] = IF q = r /\ i = k THEN none ELSE adapters[q][i]
  <2> DEFINE row == [adapters[r] EXCEPT ![k] = none]
  <2>1. adapters \in [Repos -> [LifeIds -> Parts \cup {none}]]
    BY DEF LifeInv, LifeTyped, Life!TypeOK
  <2>2. row \in [LifeIds -> Parts \cup {none}] /\ adapters' = [adapters EXCEPT ![r] = row]
    BY <1>1, <2>1
  <2>3. \A i \in LifeIds : row[i] = IF i = k THEN none ELSE adapters[r][i]
    BY <1>1, <2>1
  <2> HIDE DEF row, r, k
  <2>4. adapters'[r] = row /\ \A q \in Repos : q # r => adapters'[q] = adapters[q]
    BY <1>1, <2>1, <2>2
  <2>5. adapters' \in [Repos -> [LifeIds -> Parts \cup {none}]]
    BY <2>1, <2>2
  <2>6. QED
    BY <2>3, <2>4, <2>5
<1>3. \A p \in ops' : p \in ops /\ p.kind = "reset" /\ p.phase = "onStop" /\ p.visited = {} /\ p.adapter # none
  BY <1>1, LifeBeside, LifeKinds
<1>4. \A p \in ops : p.kind = "reset" \/ Stops(p, p.adapter) => p \in ops'
  BY <1>1 DEF Stops
<1>5. \A p \in ops : \A q \in Repos, i \in LifeIds : Ended(p, q, i) /\ ~ (q = r /\ i = k) => p \in ops'
  BY <1>1 DEF Ended
<1> HIDE DEF r, k
<1>6. LifeTyped'
  BY <1>1, <1>2 DEF LifeInv, LifeTyped, Life!TypeOK
<1>7. OpsInv'
  <2>1. ASSUME NEW p \in ops' PROVE OpFits(p)'
    <3>1. StopFits(p) /\ p.kind = "reset" /\ p.adapter # none
      BY <1>3 DEF LifeInv, OpsInv, OpFits
    <3>2. ASSUME NEW q \in Repos, NEW i \in LifeIds PROVE adapters'[q][i] # p.adapter
      <4>1. adapters[q][i] # p.adapter
        BY <3>1 DEF StopFits
      <4>2. QED
        BY <1>2, <3>1, <4>1
    <3>3. StopFits(p)'
      BY <1>1, <3>1, <3>2 DEF StopFits
    <3>4. QED
      BY <1>3, <3>3 DEF OpFits
  <2>2. QED
    BY <1>3, <2>1 DEF LifeInv, OpsInv, Apart
<1>8. MapInv'
  <2>1. ASSUME NEW q \in Repos, NEW i \in LifeIds, adapters'[q][i] # none PROVE Mapped(q, i)'
    <3>1. ~ (q = r /\ i = k) /\ adapters'[q][i] = adapters[q][i] /\ Mapped(q, i)
      BY <1>2, <2>1 DEF LifeInv, MapInv
    <3>2. \A p \in ops : Ended(p, q, i) => p \in ops'
      BY <1>5, <3>1
    <3>3. QED
      BY <1>1, <3>1, <3>2 DEF Mapped, Ended
  <2>2. QED
    BY <2>1 DEF MapInv, Mapped
<1>9. HomeInv'
  <2>1. ASSUME NEW a \in Parts, lifecycle'[a] = "started" PROVE Homed(a)'
    <3>1. Homed(a) /\ lifecycle[a] = "started" /\ home'[a] = home[a] /\ IdOf[a] \in LifeIds /\ a # none
      BY <1>1, <2>1, LifeKinds DEF LifeInv, HomeInv
    <3>2. CASE \E p \in ops : p.kind = "reset" /\ p.adapter = a
      BY <1>4, <3>2 DEF Homed
    <3>3. CASE home[a] \in Repos /\ adapters[home[a]][IdOf[a]] = a
      <4>1. ~ (home[a] = r /\ IdOf[a] = k)
        BY <1>1, <3>1, <3>3 DEF Gone
      <4>2. QED
        BY <1>2, <3>1, <3>3, <4>1 DEF Homed
    <3>4. QED
      BY <3>1, <3>2, <3>3 DEF Homed
  <2>2. QED
    BY <2>1 DEF HomeInv, Homed
<1>10. KnownInv'
  <2>1. ASSUME NEW q \in Repos, NEW c \in lifeModel'[q] PROVE Known(q, c)'
    <3>1. /\ c \in lifeModel[q] /\ c.adapter \in Parts /\ adapters[q][IdOf[c.adapter]] = c.adapter
          /\ c \in channels[c.adapter] /\ lifecycle[c.adapter] = "started"
          /\ IdOf[c.adapter] \in LifeIds /\ c.adapter # none
      BY <1>1, LifePlaces, LifeKinds
    <3>2. ~ (q = r /\ IdOf[c.adapter] = k)
      BY <1>1, <3>1 DEF Gone
    <3>3. QED
      BY <1>1, <1>2, <3>1, <3>2 DEF Known
  <2>2. QED
    BY <2>1 DEF KnownInv
<1>11. ToldInv' /\ OpenInv'
  BY <1>1, <1>4 DEF LifeInv, ToldInv, Told, Stops, OpenInv
<1>12. QED
  BY <1>6, <1>7, <1>8, <1>9, <1>10, <1>11 DEF LifeInv

(* onStop ends.                                                            *)
LEMMA LifeStopped ==
  ASSUME Life!LifeAssumption, LifeInv, NEW o \in ops, Life!Stopped(o)
  PROVE  LifeInv'
<1> DEFINE told == IF Kind[o.adapter] = "storage" THEN channels[o.adapter] ELSE {}
<1>1. PICK a : a = o.adapter
  OBVIOUS
<1>2. /\ o.phase = "onStop" /\ OpFits(o) /\ StopFits(o) /\ o \in Life!Op /\ o.repo \in Repos
      /\ o.kind \in {"remove", "reset", "shutdown"} /\ a \in Parts
  BY <1>1, LifeBeside DEF Life!Stopped, LifeInv, OpsInv, OpFits, StopFits, LifeTyped, Life!TypeOK
<1>3. /\ lifecycle' = [lifecycle EXCEPT ![a] = "stopped"] /\ channels' = [channels EXCEPT ![a] = {}]
      /\ lifeModel' = [r \in Repos |-> IF r = home[a] THEN lifeModel[r] \ told ELSE lifeModel[r]]
      /\ open' = IF Kind[a] = "server" THEN open ELSE [open EXCEPT ![a] = 0]
      /\ UNCHANGED <<home, lifeMade, adapters, calls>>
  BY <1>1 DEF Life!Stopped, Life!Emptied
<1>4. \E next :
         /\ ops' = (ops \ {o}) \cup next
         /\ o.kind = "reset" => next = {}
         /\ o.kind = "remove" => next = {[o EXCEPT !.phase = "delete"]}
         /\ o.kind = "shutdown" => next = {[o EXCEPT !.phase = "next"]}
  BY <1>2 DEF Life!Stopped
<1>5. PICK m \in Life!Op :
         /\ m.kind = o.kind /\ m.repo = o.repo /\ m.id = o.id /\ m.visited = o.visited
         /\ o.kind = "remove" => m.phase = "delete"
         /\ o.kind = "shutdown" => m.phase = "next"
         /\ ops' = (ops \ {o}) \cup (IF o.kind = "reset" THEN {} ELSE {m})
  <2>1. PICK next :
         /\ ops' = (ops \ {o}) \cup next
         /\ o.kind = "reset" => next = {}
         /\ o.kind = "remove" => next = {[o EXCEPT !.phase = "delete"]}
         /\ o.kind = "shutdown" => next = {[o EXCEPT !.phase = "next"]}
    BY <1>4
  <2>2. CASE o.kind = "reset"
    BY <1>2, <2>1, <2>2
  <2>3. CASE o.kind = "remove"
    <3> DEFINE m == [o EXCEPT !.phase = "delete"]
    <3>1. /\ m \in Life!Op /\ m.kind = o.kind /\ m.repo = o.repo /\ m.id = o.id /\ m.visited = o.visited
          /\ m.phase = "delete"
      BY <1>2, <2>3 DEF Life!Op
    <3>2. next = {m}
      BY <2>1, <2>3
    <3> HIDE DEF m
    <3>3. QED
      BY <2>1, <2>3, <3>1, <3>2
  <2>4. CASE o.kind = "shutdown"
    <3> DEFINE m == [o EXCEPT !.phase = "next"]
    <3>1. /\ m \in Life!Op /\ m.kind = o.kind /\ m.repo = o.repo /\ m.id = o.id /\ m.visited = o.visited
          /\ m.phase = "next"
      BY <1>2, <2>4 DEF Life!Op
    <3>2. next = {m}
      BY <2>1, <2>4
    <3> HIDE DEF m
    <3>3. QED
      BY <2>1, <2>4, <3>1, <3>2
  <2>5. QED
    BY <1>2, <2>2, <2>3, <2>4
<1>6. /\ \A p \in ops' : (p \in ops /\ p # o) \/ (p = m /\ o.kind # "reset")
      /\ \A p \in ops : p = o \/ p \in ops'
      /\ o.kind # "reset" => m \in ops'
  BY <1>5
<1> HIDE DEF told
<1>7. /\ \A b \in Parts : b # a => lifecycle'[b] = lifecycle[b] /\ channels'[b] = channels[b] /\ open'[b] = open[b]
      /\ lifecycle'[a] = "stopped" /\ channels'[a] = {} /\ open'[a] = 0
      /\ lifecycle' \in [Parts -> Life!Lifecycles] /\ channels' \in [Parts -> SUBSET Life!Channel]
      /\ open' \in [Parts -> Nat]
  <2>1. /\ lifecycle \in [Parts -> Life!Lifecycles] /\ channels \in [Parts -> SUBSET Life!Channel]
        /\ open \in [Parts -> Nat] /\ "stopped" \in Life!Lifecycles
    BY DEF LifeInv, LifeTyped, Life!TypeOK, Life!Lifecycles
  <2>2. CASE Kind[a] = "server"
    <3>1. open[a] = 0 /\ open' = open
      BY <1>1, <1>2, <1>3, <2>2 DEF StopFits
    <3>2. QED
      BY <1>2, <1>3, <2>1, <3>1
  <2>3. CASE Kind[a] # "server"
    BY <1>2, <1>3, <2>1, <2>3
  <2>4. QED
    BY <2>2, <2>3
<1>8. /\ lifeModel' \in [Repos -> SUBSET Life!Channel]
      /\ \A q \in Repos : lifeModel'[q] \subseteq lifeModel[q]
      /\ \A q \in Repos : \A c \in lifeModel[q] : c.adapter # a => c \in lifeModel'[q]
      /\ \A q \in Repos : \A c \in lifeModel'[q] : c.adapter # a
  <2>1. \A c \in told : c.adapter = a
    BY <1>1, <1>2 DEF told, LifeInv, LifeTyped
  <2>2. lifeModel \in [Repos -> SUBSET Life!Channel]
    BY DEF LifeInv, LifeTyped, Life!TypeOK
  <2>3. \A q \in Repos : lifeModel'[q] = IF q = home[a] THEN lifeModel[q] \ told ELSE lifeModel[q]
    BY <1>3
  <2>4. ASSUME NEW q \in Repos, NEW c \in lifeModel'[q], c.adapter = a PROVE FALSE
    <3>1. c \in lifeModel[q]
      BY <2>3
    <3>2. home[a] = q /\ c \in channels[a]
      BY <2>4, <3>1, LifePlaces
    <3>3. Kind[a] # "server"
      BY <1>1, <1>2, <3>2 DEF StopFits
    <3>4. c \in told
      BY <1>1, <1>2, <3>2, <3>3, LifeKinds DEF told
    <3>5. QED
      BY <2>3, <3>2, <3>4
  <2>5. QED
    BY <1>3, <2>1, <2>2, <2>3, <2>4
<1>9. LifeTyped'
  <2>1. \A b \in Parts : (\A c \in channels'[b] : c.adapter = b) /\ (lifecycle'[b] # "started" => channels'[b] = {})
    BY <1>7 DEF LifeInv, LifeTyped, Life!TypeOK
  <2>2. ops' \subseteq Life!Op
    BY <1>5 DEF LifeInv, LifeTyped, Life!TypeOK
  <2>3. QED
    BY <1>3, <1>7, <1>8, <2>1, <2>2 DEF LifeInv, LifeTyped, Life!TypeOK
<1>10. \A r \in Repos, i \in LifeIds : Gone(r, i) => Gone(r, i)'
  <2>1. ASSUME NEW r \in Repos, NEW i \in LifeIds, Gone(r, i), adapters[r][i] # none PROVE lifecycle'[adapters[r][i]] = "stopped"
    <3>1. adapters[r][i] \in Parts /\ lifecycle[adapters[r][i]] = "stopped"
      BY <2>1, LifePlaces DEF Gone
    <3>2. QED
      BY <1>7, <3>1
  <2>2. QED
    BY <1>3, <2>1 DEF Gone
<1>11. o.kind # "reset" => adapters[o.repo][o.id] = a /\ o.id \in LifeIds /\ Gone(o.repo, o.id)'
  BY <1>1, <1>2, <1>3, <1>7 DEF StopFits, Gone
<1>12. OpsInv'
  <2>1. ASSUME NEW p \in ops, p # o PROVE OpFits(p)'
    <3>1. OpFits(p) /\ p.repo \in Repos /\ p.visited \subseteq LifeIds
      BY LifeBeside DEF LifeInv, OpsInv, LifeTyped, Life!TypeOK, Life!Op
    <3>2. p.phase = "onStop" => p.adapter \in Parts /\ p.adapter # a
      BY <1>1, <1>2, <2>1, <3>1, LifeBeside DEF OpFits, StopFits, Stops
    <3>3. p.phase = "onStop" => StopFits(p)'
      BY <1>3, <1>7, <3>1, <3>2 DEF OpFits, StopFits
    <3>4. \A i \in p.visited : Gone(p.repo, i)' \/ (p.phase = "onStop" /\ p.id = i)
      BY <1>10, <3>1 DEF OpFits
    <3>5. p.phase = "delete" => p.id \in LifeIds /\ Gone(p.repo, p.id)'
      BY <1>10, <3>1 DEF OpFits
    <3>6. QED
      BY <3>1, <3>3, <3>4, <3>5 DEF OpFits
  <2>2. ASSUME o.kind # "reset" PROVE OpFits(m)'
    <3>1. \A i \in m.visited : Gone(m.repo, i)'
      <4>1. m.visited \subseteq LifeIds
        BY DEF Life!Op
      <4>2. QED
        BY <1>2, <1>5, <1>10, <1>11, <2>2, <4>1 DEF OpFits
    <3>2. m.kind \in {"remove", "shutdown"} /\ m.phase \in {"delete", "next"}
          /\ (m.kind = "remove" <=> m.phase = "delete")
      BY <1>2, <1>5, <2>2
    <3>3. m.kind # "shutdown" => m.visited = {}
      BY <1>2, <1>5 DEF OpFits
    <3>4. m.id \in LifeIds /\ Gone(m.repo, m.id)'
      BY <1>5, <1>11, <2>2
    <3>5. QED
      BY <3>1, <3>2, <3>3, <3>4 DEF OpFits
  <2>3. \A p \in ops : p # o /\ o.kind # "reset" => p.kind = "reset"
    BY LifeBeside
  <2>4. \A p, q \in ops' : Apart(p, q)
    BY <1>5, <1>6, <2>3 DEF LifeInv, OpsInv, Apart
  <2>5. QED
    BY <1>6, <2>1, <2>2, <2>4 DEF OpsInv, Apart
<1>13. MapInv'
  <2>1. ASSUME NEW q \in Repos, NEW i \in LifeIds, adapters[q][i] # none
        PROVE  lifecycle'[adapters[q][i]] = "started" \/ \E p \in ops' : Ended(p, q, i)
    <3>1. adapters[q][i] \in Parts /\ IdOf[adapters[q][i]] = i /\ home[adapters[q][i]] = q
      BY <2>1, LifePlaces
    <3>2. CASE adapters[q][i] = a
      <4>1. o.kind # "reset"
        BY <1>1, <1>2, <3>2 DEF StopFits
      <4>2. o.repo = q /\ o.id = i
        BY <1>2, <1>11, <3>1, <3>2, <4>1, LifePlaces, LifeKinds
      <4>3. Ended(m, q, i)
        BY <1>1, <1>2, <1>5, <4>1, <4>2 DEF Ended, StopFits
      <4>4. QED
        BY <1>6, <4>1, <4>3
    <3>3. CASE adapters[q][i] # a /\ lifecycle[adapters[q][i]] = "started"
      BY <1>7, <3>1, <3>3
    <3>4. ASSUME NEW p \in ops, Ended(p, q, i) PROVE \E z \in ops' : Ended(z, q, i)
      <4>1. CASE p # o
        BY <1>6, <3>4, <4>1
      <4>2. CASE p = o
        <5>1. o.repo = q /\ i \in o.visited /\ o.kind # "reset"
          BY <1>2, <3>4, <4>2 DEF Ended, OpFits
        <5>2. Ended(m, q, i)
          BY <1>5, <5>1 DEF Ended
        <5>3. QED
          BY <1>6, <5>1, <5>2
      <4>3. QED
        BY <4>1, <4>2
    <3>5. QED
      BY <2>1, <3>2, <3>3, <3>4 DEF LifeInv, MapInv, Mapped
  <2>2. QED
    BY <1>3, <2>1, LifePlaces DEF MapInv, Mapped, Ended
<1>14. HomeInv'
  <2>1. ASSUME NEW b \in Parts, lifecycle'[b] = "started" PROVE Homed(b)'
    <3>1. b # a /\ Homed(b) /\ lifecycle[b] = "started"
      BY <1>7, <2>1 DEF LifeInv, HomeInv
    <3>2. QED
      BY <1>1, <1>3, <1>6, <3>1 DEF Homed
  <2>2. QED
    BY <2>1 DEF HomeInv, Homed
<1>15. KnownInv'
  <2>1. ASSUME NEW q \in Repos, NEW c \in lifeModel'[q] PROVE Known(q, c)'
    <3>1. c \in lifeModel[q] /\ c.adapter # a
      BY <1>8
    <3>2. c.adapter \in Parts /\ adapters[q][IdOf[c.adapter]] = c.adapter /\ c \in channels[c.adapter]
      BY <3>1, LifePlaces
    <3>3. QED
      BY <1>3, <1>7, <3>1, <3>2 DEF Known
  <2>2. QED
    BY <2>1 DEF KnownInv
<1>16. ToldInv'
  <2>1. ASSUME NEW b \in Parts, NEW c \in channels'[b] PROVE Told(b, c)'
    <3>1. b # a
      BY <1>7
    <3>2. Told(b, c) /\ c.adapter = b
      BY <1>7, <3>1 DEF LifeInv, ToldInv, LifeTyped
    <3>3. CASE \E p \in ops : Stops(p, b)
      BY <1>1, <1>6, <3>1, <3>3 DEF Told, Stops
    <3>4. CASE home[b] \in Repos /\ c \in lifeModel[home[b]]
      BY <1>3, <1>8, <3>1, <3>2, <3>4 DEF Told
    <3>5. QED
      BY <3>2, <3>3, <3>4 DEF Told
  <2>2. QED
    BY <2>1 DEF ToldInv
<1>17. OpenInv'
  <2>1. ASSUME NEW b \in Parts PROVE open'[b] <= 1 /\ (lifecycle'[b] # "started" => open'[b] = 0)
    <3>1. CASE b = a
      BY <1>7, <3>1
    <3>2. CASE b # a
      BY <1>7, <3>2 DEF LifeInv, OpenInv
    <3>3. QED
      BY <3>1, <3>2
  <2>2. QED
    BY <2>1 DEF OpenInv
<1>18. QED
  BY <1>9, <1>12, <1>13, <1>14, <1>15, <1>16, <1>17 DEF LifeInv

(* Every step keeps the invariant.                                         *)
LEMMA LifeStep ==
  ASSUME Life!LifeAssumption, LifeInv, [Life!Next]_(Life!vars)
  PROVE  LifeInv'
<1>1. CASE UNCHANGED Life!vars
  BY <1>1 DEF Life!vars, LifeInv, LifeTyped, Life!TypeOK, OpsInv, OpFits, StopFits, Gone, Apart, MapInv, Mapped,
      Ended, HomeInv, Homed, KnownInv, Known, ToldInv, Told, Stops, OpenInv, Life!Op, Life!Channel
<1>2. CASE Life!Next
  BY <1>2, LifeConstruct, LifeAddAdapter, LifeAccept, LifeClose, LifeRemoveAdapter, LifeReset, LifeShutdown,
     LifeShutdownNext, LifeShutdownEnds, LifeStopped, LifeDelete DEF Life!Next
<1>3. QED
  BY <1>1, <1>2

(* What the invariant is for.                                              *)
LEMMA LifeAgrees ==
  ASSUME Life!LifeAssumption, LifeInv
  PROVE  Life!Agree /\ Life!OpensOnce
<1>1. ASSUME NEW r \in Repos, NEW c \in lifeModel[r] PROVE c.adapter \in Life!InMap(r)
  BY LifePlaces, LifeKinds DEF Life!InMap
<1>2. ASSUME NEW r \in Repos, NEW a \in Life!InMap(r) \ Life!Stopping
      PROVE  {c \in lifeModel[r] : c.adapter = a} = channels[a]
  <2>1. a \in Parts /\ home[a] = r
    BY LifePlaces DEF Life!InMap
  <2>2. \A o \in ops : ~ Stops(o, a)
    BY DEF Life!Stopping, Stops
  <2>3. ASSUME NEW c \in channels[a] PROVE c \in lifeModel[r] /\ c.adapter = a
    BY <2>1, <2>2 DEF LifeInv, LifeTyped, ToldInv, Told
  <2>4. ASSUME NEW c \in lifeModel[r], c.adapter = a PROVE c \in channels[a]
    BY <2>4, LifePlaces
  <2>5. QED
    BY <2>3, <2>4
<1>3. QED
  BY <1>1, <1>2 DEF Life!Agree, Life!OpensOnce, LifeInv, OpenInv

(* What a call takes out of the map has stopped.                           *)
LEMMA LifeRemoves ==
  ASSUME Life!LifeAssumption, LifeInv, NEW o \in ops, Life!Delete(o)
  PROVE  adapters[o.repo][o.id] = none \/ lifecycle[adapters[o.repo][o.id]] = "stopped"
BY DEF Life!Delete, LifeInv, OpsInv, OpFits, Gone

(* Models and directories agree, no adapter listens twice, and none is     *)
(* taken out before it has stopped.                                        *)
LEMMA LifeSound ==
  ASSUME Life!LifeAssumption
  PROVE  Life!Spec => [](Life!Agree /\ Life!OpensOnce) /\ Life!RemovesStopped
<1>1. LifeInv => Life!Agree /\ Life!OpensOnce
  BY LifeAgrees
<1>2. LifeInv => \A o \in ops : Life!Delete(o) =>
         LET a == adapters[o.repo][o.id]
         IN  a = none \/ lifecycle[a] = "stopped"
  BY LifeRemoves
<1>3. LifeInv /\ [Life!Next]_(Life!vars) => LifeInv'
  BY LifeStep
<1>4. QED
  BY <1>1, <1>2, <1>3, LifeStarts, PTL DEF Life!Spec, Life!RemovesStopped

-----------------------------------------------------------------------------
(* The adapters on a Bridge.                                               *)

Bridge == INSTANCE BridgeLink WITH
  Adapters <- Joined, MaxStarts <- JoinedStarts, starts <- bridgeStarts,
  model <- bridgeModel

(* A message on its way; the channels that the adapters have to others.    *)
Carried == [type : {"establish-request", "establish-response", "sync"},
            from : Joined, to : Joined, sent : Nat, channel : Nat]
(* The maps of channels.                                                   *)
Rows == [Joined -> [Joined -> Nat]]
(* The numbers that a start may use.                                       *)
PerStart == 2 * (Cardinality(Joined) - 1)

(* A channel a message is delivered to, while it is there, belongs to the  *)
(* pair of adapters the message is between.                                *)
Fits(m, ch) ==
  /\ m.channel # 0
  /\ \A x, y \in Joined : ch[x][y] = m.channel =>
       x = m.to /\ y = m.from /\ ch[y][x] = m.sent

(* The channels in use: both adapters are on the Bridge, numbers are used  *)
(* once and have been issued.                                              *)
Paired(ch, on, last) ==
  /\ ch \in Rows
  /\ \A x, y \in Joined : ch[x][y] # 0 => x \in on /\ y \in on
  /\ \A x, y, u, v \in Joined : ch[x][y] # 0 /\ ch[x][y] = ch[u][v] => x = u /\ y = v
  /\ \A x, y \in Joined : ch[x][y] <= last

(* The inductive invariant: no more numbers are issued than the starts may *)
(* use, the channels that a Repo knows are in use, and every message fits. *)
BridgeInv ==
  /\ registered \subseteq Joined /\ bridgeStarts \in 0 .. JoinedStarts
  /\ issued \in Nat /\ issued <= bridgeStarts * PerStart
  /\ Paired(channelTo, registered, issued)
  /\ bridgeModel \in [Joined -> [Bridge!Nrs -> {"none", "connected", "established"}]]
  /\ \A x \in Joined : \A n \in Bridge!Nrs : bridgeModel[x][n] # "none" =>
       \E y \in Joined : channelTo[x][y] = n
  /\ tasks \in Seq(Carried)
  /\ \A k \in 1 .. Len(tasks) : tasks[k].channel <= issued /\ Fits(tasks[k], channelTo)

(* What the theorem assumes.                                               *)
BridgeBounds == IsFiniteSet(Joined) /\ JoinedStarts \in Nat

(* The instance counts as this module does, and there is room for what a   *)
(* start issues.                                                           *)
LEMMA BridgeCounts ==
  ASSUME NEW S
  PROVE  Bridge!Cardinality(S) = Cardinality(S)
BY DEF Cardinality, Bridge!Cardinality

(* There is room for the numbers of every start.                           *)
LEMMA BridgeRoom ==
  ASSUME BridgeBounds, NEW a \in Joined
  PROVE  /\ PerStart \in Nat /\ Bridge!MaxChannels = JoinedStarts * PerStart
         /\ \A k \in 0 .. JoinedStarts : k * PerStart <= Bridge!MaxChannels
<1>1. Cardinality(Joined) \in Nat /\ Cardinality(Joined) >= 1
  <2>1. Cardinality(Joined) \in Nat
    BY FS_CardinalityType DEF BridgeBounds
  <2>2. Cardinality(Joined) # 0
    BY FS_EmptySet DEF BridgeBounds
  <2>3. QED
    BY <2>1, <2>2
<1>2. PICK c \in Nat : c = Cardinality(Joined) - 1
  BY <1>1
<1>3. PerStart = 2 * c
  BY <1>2 DEF PerStart
<1>4. Bridge!MaxChannels = JoinedStarts * 2 * c
  BY <1>2, BridgeCounts DEF Bridge!MaxChannels
<1>5. JoinedStarts * 2 * c = JoinedStarts * (2 * c)
  BY DEF BridgeBounds
<1>6. ASSUME NEW k \in 0 .. JoinedStarts, NEW d \in Nat PROVE k * d <= JoinedStarts * d
  <2>1. PICK j \in Nat : j = JoinedStarts - k
    BY DEF BridgeBounds
  <2>2. JoinedStarts = k + j /\ k \in Nat
    BY <2>1 DEF BridgeBounds
  <2>3. JoinedStarts * d = k * d + j * d /\ j * d >= 0
    BY <2>1, <2>2
  <2>4. QED
    BY <2>2, <2>3, <2>1
<1>7. 2 * c \in Nat
  OBVIOUS
<1>8. QED
  BY <1>3, <1>4, <1>5, <1>6, <1>7

(* At first no adapter is on the Bridge.                                   *)
LEMMA BridgeStart == ASSUME BridgeBounds, Bridge!Init PROVE BridgeInv
<1>1. bridgeStarts = 0 /\ issued = 0 /\ tasks = <<>> /\ registered = {}
      /\ channelTo = [a \in Joined |-> [b \in Joined |-> 0]]
      /\ bridgeModel = [a \in Joined |-> [n \in Bridge!Nrs |-> "none"]]
  BY DEF Bridge!Init
<1>2. Paired(channelTo, registered, issued)
  BY <1>1 DEF Paired, Rows
<1>3. issued <= bridgeStarts * PerStart
  <2>1. 0 * PerStart = 0
    <3>1. Cardinality(Joined) \in Nat
      BY FS_CardinalityType DEF BridgeBounds
    <3>2. PICK c \in Int : c = PerStart
      BY <3>1 DEF PerStart
    <3>3. QED
      BY <3>2
  <2>2. QED
    BY <1>1, <2>1
<1>4. tasks \in Seq(Carried) /\ Len(tasks) = 0
  BY <1>1
<1>5. QED
  BY <1>1, <1>2, <1>3, <1>4 DEF BridgeInv, BridgeBounds

(* What is sent on present channels fits them.                             *)
LEMMA BridgeSent ==
  ASSUME NEW ch, NEW on, NEW last \in Nat, Paired(ch, on, last),
         NEW type \in {"establish-request", "establish-response", "sync"},
         NEW a \in Joined, NEW b \in Joined, ch[a][b] # 0, ch[b][a] # 0
  PROVE  LET m == Bridge!Between(type, a, b, ch)
         IN  m \in Carried /\ m.channel <= last /\ Fits(m, ch)
<1>1. ch[a][b] \in Nat /\ ch[b][a] \in Nat /\ ch[b][a] <= last
  BY DEF Paired, Rows
<1> DEFINE m == Bridge!Between(type, a, b, ch)
<1>2. m.from = a /\ m.to = b /\ m.sent = ch[a][b] /\ m.channel = ch[b][a] /\ m \in Carried
  BY <1>1 DEF Bridge!Between, Carried
<1> HIDE DEF m
<1>3. \A x, y \in Joined : ch[x][y] = m.channel => x = b /\ y = a
  BY <1>2 DEF Paired
<1>4. Fits(m, ch)
  BY <1>2, <1>3 DEF Fits
<1>5. QED
  BY <1>1, <1>2, <1>4 DEF m

(* The order in which a newcomer takes the others, and the numbers that    *)
(* the new channels get.                                                   *)
LEMMA BridgeNumbers ==
  ASSUME BridgeBounds, BridgeInv, NEW a \in Joined, a \notin registered,
         NEW order \in Bridge!OrdersOf(registered)
  PROVE  /\ order \in Seq(registered) /\ DOMAIN order = 1 .. Len(order)
         /\ 2 * Len(order) <= PerStart
         /\ LET ch == Bridge!Numbered(a, order)
            IN  /\ Paired(ch, registered \cup {a}, issued + 2 * Len(order))
                /\ \A x \in registered : ch[x][a] > issued /\ ch[a][x] > issued
                /\ \A x, y \in Joined : ch[x][y] <= issued =>
                     ch[x][y] = channelTo[x][y] /\ ch[y][x] = channelTo[y][x]
                /\ \A x, y \in Joined : channelTo[x][y] # 0 => ch[x][y] = channelTo[x][y]
<1> DEFINE n == Bridge!Cardinality(registered)
<1>1. IsFiniteSet(registered) /\ n = Cardinality(registered) /\ n \in Nat
      /\ n <= Cardinality(Joined) - 1 /\ registered \subseteq Joined
  <2>1. registered \subseteq Joined \ {a}
    BY DEF BridgeInv
  <2>2. IsFiniteSet(Joined \ {a}) /\ Cardinality(Joined \ {a}) = Cardinality(Joined) - 1
    BY FS_RemoveElement DEF BridgeBounds
  <2>3. IsFiniteSet(registered) /\ Cardinality(registered) <= Cardinality(Joined \ {a})
    BY <2>1, <2>2, FS_Subset
  <2>4. Cardinality(registered) \in Nat
    BY <2>3, FS_CardinalityType
  <2>5. QED
    BY <2>1, <2>2, <2>3, <2>4, BridgeCounts
<1>2. /\ order \in [1 .. n -> registered]
      /\ \A k, l \in 1 .. n : order[k] = order[l] => k = l
      /\ \A x \in registered : \E k \in 1 .. n : order[k] = x
  BY DEF Bridge!OrdersOf, Bridge!Bijection, Bridge!Injection, Bridge!Surjection, Bridge!IsInjective
<1> HIDE DEF n
<1>3. order \in Seq(registered) /\ Len(order) = n /\ DOMAIN order = 1 .. n
  BY <1>1, <1>2
<1> DEFINE pos(x) == CHOOSE k \in DOMAIN order : order[k] = x
           ch == Bridge!Numbered(a, order)
<1>4. \A x \in registered : pos(x) \in 1 .. n /\ order[pos(x)] = x
  BY <1>2, <1>3
<1>5. /\ \A x \in registered : ch[x][a] = issued + pos(x) /\ ch[a][x] = issued + n + pos(x)
      /\ \A x, y \in Joined : ~ (y = a /\ x \in registered) /\ ~ (x = a /\ y \in registered)
           => ch[x][y] = channelTo[x][y]
      /\ DOMAIN ch = Joined /\ \A x \in Joined : DOMAIN ch[x] = Joined
      /\ ch = [x \in Joined |-> [y \in Joined |-> ch[x][y]]]
  BY <1>1, <1>3 DEF Bridge!Numbered
<1> HIDE DEF pos, ch
<1>6. /\ issued \in Nat /\ channelTo \in Rows
      /\ \A x, y \in Joined : channelTo[x][y] # 0 => x \in registered /\ y \in registered
      /\ \A x, y, u, v \in Joined : channelTo[x][y] # 0 /\ channelTo[x][y] = channelTo[u][v] => x = u /\ y = v
      /\ \A x, y \in Joined : channelTo[x][y] <= issued
  BY DEF BridgeInv, Paired
<1>7. \A x \in registered : /\ pos(x) \in Nat /\ pos(x) >= 1 /\ pos(x) <= n
                            /\ \A y \in registered : pos(x) = pos(y) => x = y
  BY <1>1, <1>4
<1>8. \A x \in registered : /\ ch[x][a] \in Nat /\ ch[x][a] > issued /\ ch[x][a] <= issued + n
                            /\ ch[a][x] \in Nat /\ ch[a][x] > issued + n /\ ch[a][x] <= issued + 2 * n
  <2>1. ASSUME NEW x \in registered, NEW p \in Nat, p >= 1, p <= n
        PROVE  /\ issued + p \in Nat /\ issued + p > issued /\ issued + p <= issued + n
               /\ issued + n + p \in Nat /\ issued + n + p > issued + n
               /\ issued + n + p <= issued + 2 * n
    BY <2>1, <1>1, <1>6
  <2>2. ASSUME NEW x \in registered
        PROVE  /\ ch[x][a] \in Nat /\ ch[x][a] > issued /\ ch[x][a] <= issued + n
               /\ ch[a][x] \in Nat /\ ch[a][x] > issued + n /\ ch[a][x] <= issued + 2 * n
    <3>1. PICK p \in Nat : p = pos(x) /\ p >= 1 /\ p <= n
      BY <1>7
    <3>2. ch[x][a] = issued + p /\ ch[a][x] = issued + n + p
      BY <3>1, <1>5
    <3>3. QED
      BY <2>1, <3>1, <3>2
  <2>3. QED
    BY <2>2
<1>9. \A x, y \in registered : (ch[x][a] = ch[y][a] => x = y) /\ (ch[a][x] = ch[a][y] => x = y)
  <2>1. ASSUME NEW p \in Nat, NEW q \in Nat, issued + p = issued + q \/ issued + n + p = issued + n + q
        PROVE  p = q
    BY <2>1, <1>1, <1>6
  <2>2. ASSUME NEW x \in registered, NEW y \in registered, ch[x][a] = ch[y][a] \/ ch[a][x] = ch[a][y]
        PROVE  x = y
    <3>1. PICK p \in Nat : p = pos(x)
      BY <1>7
    <3>2. PICK q \in Nat : q = pos(y)
      BY <1>7
    <3>3. issued + p = issued + q \/ issued + n + p = issued + n + q
      BY <2>2, <3>1, <3>2, <1>5
    <3>4. p = q
      BY <2>1, <3>3
    <3>5. QED
      BY <3>1, <3>2, <3>4, <1>7
  <2>3. QED
    BY <2>2
<1> DEFINE New(x, y) == (y = a /\ x \in registered) \/ (x = a /\ y \in registered)
<1>10. \A x, y \in Joined : /\ channelTo[x][y] \in Nat
                            /\ ~ New(x, y) => ch[x][y] = channelTo[x][y]
                            /\ New(x, y) => channelTo[x][y] = 0 /\ New(y, x)
                            /\ New(x, y) => ch[x][y] \in Nat /\ ch[x][y] > issued /\ ch[x][y] <= issued + 2 * n
  <2>1. SUFFICES ASSUME NEW x \in Joined, NEW y \in Joined
                 PROVE  /\ channelTo[x][y] \in Nat
                        /\ ~ New(x, y) => ch[x][y] = channelTo[x][y]
                        /\ New(x, y) => channelTo[x][y] = 0 /\ New(y, x)
                        /\ New(x, y) => ch[x][y] \in Nat /\ ch[x][y] > issued /\ ch[x][y] <= issued + 2 * n
    OBVIOUS
  <2>2. channelTo[x][y] \in Nat /\ (New(x, y) => channelTo[x][y] = 0)
    BY <1>6 DEF Rows
  <2>3. ~ New(x, y) => ch[x][y] = channelTo[x][y]
    BY <1>5
  <2>4. \A r \in registered : /\ ch[r][a] > issued /\ ch[r][a] <= issued + 2 * n
                              /\ ch[a][r] > issued /\ ch[a][r] <= issued + 2 * n
    BY <1>1, <1>6, <1>8
  <2>5. New(x, y) => ch[x][y] \in Nat /\ ch[x][y] > issued /\ ch[x][y] <= issued + 2 * n
    BY <2>4, <1>8
  <2>6. QED
    BY <2>2, <2>3, <2>5
<1>11. \A x, y, u, v \in Joined : New(x, y) /\ New(u, v) /\ ch[x][y] = ch[u][v] => x = u /\ y = v
  BY <1>1, <1>6, <1>8, <1>9
<1>12. \A x, y \in Joined : New(x, y) => x \in registered \cup {a} /\ y \in registered \cup {a}
  OBVIOUS
<1>13. \A x, y \in Joined : New(x, y) => New(y, x)
  OBVIOUS
<1> HIDE DEF New
<1>14. Paired(ch, registered \cup {a}, issued + 2 * n)
  <2>1. ch \in Rows
    <3>1. \A x, y \in Joined : ch[x][y] \in Nat
      BY <1>10
    <3>2. QED
      BY <3>1, <1>5 DEF Rows
  <2>2. \A x, y \in Joined : ch[x][y] # 0 => x \in registered \cup {a} /\ y \in registered \cup {a}
    BY <1>6, <1>10, <1>12
  <2>3. \A x, y \in Joined : ch[x][y] <= issued + 2 * n
    BY <1>1, <1>6, <1>10
  <2>4. \A x, y, u, v \in Joined : ch[x][y] # 0 /\ ch[x][y] = ch[u][v] => x = u /\ y = v
    <3>1. SUFFICES ASSUME NEW x \in Joined, NEW y \in Joined, NEW u \in Joined, NEW v \in Joined,
                          ch[x][y] # 0, ch[x][y] = ch[u][v]
                   PROVE  x = u /\ y = v
      OBVIOUS
    <3>2. CASE New(x, y) /\ New(u, v)
      BY <3>1, <3>2, <1>11
    <3>3. CASE ~ New(x, y) /\ ~ New(u, v)
      BY <3>1, <3>3, <1>6, <1>10
    <3>4. CASE New(x, y) /\ ~ New(u, v)
      BY <3>1, <3>4, <1>6, <1>10
    <3>5. CASE ~ New(x, y) /\ New(u, v)
      BY <3>1, <3>5, <1>6, <1>10
    <3>6. QED
      BY <3>2, <3>3, <3>4, <3>5
  <2>5. QED
    BY <2>1, <2>2, <2>3, <2>4 DEF Paired
<1>15. \A x, y \in Joined : ch[x][y] <= issued => ch[x][y] = channelTo[x][y] /\ ch[y][x] = channelTo[y][x]
  BY <1>6, <1>10, <1>13
<1>16. \A x, y \in Joined : channelTo[x][y] # 0 => ch[x][y] = channelTo[x][y]
  BY <1>10
<1>17. \A x \in registered : ch[x][a] > issued /\ ch[a][x] > issued
  BY <1>1, <1>6, <1>8
<1>18. 2 * n <= PerStart
  <2>1. Cardinality(Joined) \in Nat
    BY FS_CardinalityType DEF BridgeBounds
  <2>2. QED
    BY <1>1, <2>1 DEF PerStart
<1>19. QED
  BY <1>3, <1>14, <1>15, <1>16, <1>17, <1>18 DEF ch

(* All that is in two sequences fits when what is in each does.            *)
LEMMA BridgeBoth ==
  ASSUME NEW s \in Seq(Carried), NEW t \in Seq(Carried), NEW last, NEW ch,
         \A k \in 1 .. Len(s) : s[k].channel <= last /\ Fits(s[k], ch),
         \A k \in 1 .. Len(t) : t[k].channel <= last /\ Fits(t[k], ch)
  PROVE  /\ s \o t \in Seq(Carried)
         /\ \A k \in 1 .. Len(s \o t) : (s \o t)[k].channel <= last /\ Fits((s \o t)[k], ch)
<1>1. /\ s \o t \in Seq(Carried)
      /\ \A k \in 1 .. Len(s \o t) : \/ k \in 1 .. Len(s) /\ (s \o t)[k] = s[k]
                                     \/ k - Len(s) \in 1 .. Len(t) /\ (s \o t)[k] = t[k - Len(s)]
  OBVIOUS
<1>2. QED
  BY <1>1

(* An adapter joins: the messages on their way still fit, as its channels  *)
(* have new numbers, and so do those it sends.                             *)
LEMMA BridgeStarts ==
  ASSUME BridgeBounds, BridgeInv, NEW a \in Joined, Bridge!Start(a)
  PROVE  BridgeInv'
<1>1. /\ a \notin registered /\ bridgeStarts < JoinedStarts /\ bridgeStarts' = bridgeStarts + 1
      /\ registered' = registered \cup {a}
  BY DEF Bridge!Start
<1>2. PICK order \in Bridge!OrdersOf(registered) :
        LET ch == Bridge!Numbered(a, order)
        IN /\ channelTo' = ch
           /\ issued' = issued + 2 * Len(order)
           /\ bridgeModel' = [x \in Joined |-> [n \in Bridge!Nrs |->
                IF \E y \in Joined : ch[x][y] = n /\ channelTo[x][y] # n
                THEN "connected" ELSE bridgeModel[x][n]]]
           /\ tasks' = tasks \o Bridge!Establish(a, order, ch)
  BY DEF Bridge!Start
<1> DEFINE ch == Bridge!Numbered(a, order)
           new == Bridge!Establish(a, order, ch)
<1>3. /\ order \in Seq(registered) /\ DOMAIN order = 1 .. Len(order) /\ 2 * Len(order) <= PerStart
      /\ Paired(ch, registered \cup {a}, issued + 2 * Len(order))
      /\ \A x \in registered : ch[x][a] > issued /\ ch[a][x] > issued
      /\ \A x, y \in Joined : ch[x][y] <= issued =>
           ch[x][y] = channelTo[x][y] /\ ch[y][x] = channelTo[y][x]
      /\ \A x, y \in Joined : channelTo[x][y] # 0 => ch[x][y] = channelTo[x][y]
  BY <1>1, BridgeNumbers
<1>4. /\ channelTo' = ch /\ issued' = issued + 2 * Len(order) /\ tasks' = tasks \o new
      /\ bridgeModel' = [x \in Joined |-> [n \in Bridge!Nrs |->
           IF \E y \in Joined : ch[x][y] = n /\ channelTo[x][y] # n
           THEN "connected" ELSE bridgeModel[x][n]]]
  BY <1>2
<1>5. /\ new = [k \in DOMAIN order |-> Bridge!Between("establish-request", a, order[k], ch)]
  BY DEF Bridge!Establish, Bridge!AllRouted
<1> HIDE DEF ch, new
<1>6. /\ issued \in Nat /\ registered \subseteq Joined /\ tasks \in Seq(Carried)
      /\ issued <= bridgeStarts * PerStart /\ bridgeStarts \in Nat
      /\ bridgeModel \in [Joined -> [Bridge!Nrs -> {"none", "connected", "established"}]]
      /\ \A x \in Joined : \A n \in Bridge!Nrs : bridgeModel[x][n] # "none" =>
           \E y \in Joined : channelTo[x][y] = n
      /\ \A k \in 1 .. Len(tasks) : tasks[k].channel <= issued /\ Fits(tasks[k], channelTo)
  BY DEF BridgeInv
<1> DEFINE last == issued + 2 * Len(order)
<1>7. last \in Nat /\ issued <= last /\ last <= (bridgeStarts + 1) * PerStart
  <2>1. Len(order) \in Nat /\ PerStart \in Nat
    BY <1>3, BridgeRoom
  <2>2. (bridgeStarts + 1) * PerStart = bridgeStarts * PerStart + PerStart
    BY <2>1, <1>6
  <2>3. bridgeStarts * PerStart \in Nat
    BY <2>1, <1>6
  <2>4. QED
    BY <2>1, <2>2, <2>3, <1>3, <1>6
<1>8. Paired(ch, registered \cup {a}, last)
  BY <1>3
<1>9. \A k \in 1 .. Len(order) : new[k] \in Carried /\ new[k].channel <= last /\ Fits(new[k], ch)
  <2>1. SUFFICES ASSUME NEW k \in 1 .. Len(order)
                 PROVE  new[k] \in Carried /\ new[k].channel <= last /\ Fits(new[k], ch)
    OBVIOUS
  <2>2. order[k] \in registered /\ order[k] \in Joined
    BY <1>3, <1>6
  <2>3. ch[a][order[k]] # 0 /\ ch[order[k]][a] # 0
    BY <2>2, <1>3, <1>6
  <2>4. new[k] = Bridge!Between("establish-request", a, order[k], ch)
    BY <1>3, <1>5
  <2> HIDE DEF last
  <2>5. QED
    BY <2>2, <2>3, <2>4, <1>7, <1>8, BridgeSent
<1>10. new \in Seq(Carried) /\ Len(new) = Len(order)
  <2>1. new \in [1 .. Len(order) -> Carried] /\ Len(order) \in Nat
    BY <1>3, <1>5, <1>9
  <2>2. QED
    BY <2>1
<1>11. \A k \in 1 .. Len(tasks) : Fits(tasks[k], ch) /\ tasks[k].channel <= last
  <2>1. SUFFICES ASSUME NEW k \in 1 .. Len(tasks) PROVE Fits(tasks[k], ch) /\ tasks[k].channel <= last
    OBVIOUS
  <2>0. tasks[k] \in Carried
    BY <1>6
  <2>2. Fits(tasks[k], channelTo) /\ tasks[k].channel <= issued /\ tasks[k].channel \in Nat
    BY <1>6, <2>0 DEF Carried
  <2>3. Fits(tasks[k], ch)
    BY <2>2, <1>3 DEF Fits
  <2>4. QED
    BY <2>2, <2>3, <1>6, <1>7
<1>12. tasks' \in Seq(Carried) /\ \A k \in 1 .. Len(tasks') : tasks'[k].channel <= last /\ Fits(tasks'[k], ch)
  <2>1. \A k \in 1 .. Len(new) : new[k].channel <= last /\ Fits(new[k], ch)
    BY <1>9, <1>10
  <2> HIDE DEF last
  <2>2. QED
    BY <2>1, <1>4, <1>6, <1>10, <1>11, BridgeBoth
<1>13. /\ bridgeModel' \in [Joined -> [Bridge!Nrs -> {"none", "connected", "established"}]]
       /\ \A x \in Joined : \A n \in Bridge!Nrs : bridgeModel'[x][n] # "none" =>
            \E y \in Joined : ch[x][y] = n
  <2>1. bridgeModel' \in [Joined -> [Bridge!Nrs -> {"none", "connected", "established"}]]
    BY <1>4, <1>6
  <2>2. SUFFICES ASSUME NEW x \in Joined, NEW n \in Bridge!Nrs, bridgeModel'[x][n] # "none"
                 PROVE  \E y \in Joined : ch[x][y] = n
    BY <2>1
  <2>3. CASE \E y \in Joined : ch[x][y] = n /\ channelTo[x][y] # n
    BY <2>3
  <2>4. CASE bridgeModel[x][n] # "none"
    <3>1. PICK y \in Joined : channelTo[x][y] = n
      BY <2>4, <1>6
    <3>2. n # 0
      BY DEF Bridge!Nrs
    <3>3. QED
      BY <3>1, <3>2, <1>3
  <2>5. QED
    BY <2>2, <2>3, <2>4, <1>4
<1>14. bridgeStarts' \in 0 .. JoinedStarts /\ registered' \subseteq Joined
  BY <1>1, <1>6 DEF BridgeBounds
<1> HIDE DEF last
<1>15. channelTo' = ch /\ issued' = last
  BY <1>4 DEF last
<1>16. QED
  BY <1>1, <1>7, <1>8, <1>12, <1>13, <1>14, <1>15 DEF BridgeInv

(* An adapter leaves, and its channels with it.                            *)
LEMMA BridgeStops ==
  ASSUME BridgeBounds, BridgeInv, NEW a \in Joined, Bridge!Stop(a)
  PROVE  BridgeInv'
<1>1. /\ registered' = registered \ {a} /\ UNCHANGED <<bridgeStarts, issued, tasks>>
      /\ channelTo' = Bridge!WithoutChannelsOf(a)
      /\ bridgeModel' = [x \in Joined |-> [n \in Bridge!Nrs |->
           IF \E y \in Joined : channelTo[x][y] = n /\ channelTo'[x][y] # n
           THEN "none" ELSE bridgeModel[x][n]]]
  BY DEF Bridge!Stop
<1>2. /\ channelTo' \in Rows
      /\ \A x, y \in Joined : channelTo'[x][y] = IF a \in {x, y} THEN 0 ELSE channelTo[x][y]
  BY <1>1 DEF Bridge!WithoutChannelsOf, BridgeInv, Paired, Rows
<1>3. Paired(channelTo, registered, issued) /\ issued \in Nat
  BY DEF BridgeInv
<1>4. Paired(channelTo', registered', issued)
  <2>1. \A x, y \in Joined : channelTo'[x][y] # 0 => x \in registered' /\ y \in registered'
    BY <1>1, <1>2, <1>3 DEF Paired
  <2>2. \A x, y, u, v \in Joined : channelTo'[x][y] # 0 /\ channelTo'[x][y] = channelTo'[u][v] => x = u /\ y = v
    BY <1>2, <1>3 DEF Paired
  <2>3. \A x, y \in Joined : channelTo'[x][y] <= issued
    BY <1>2, <1>3 DEF Paired
  <2>4. QED
    BY <1>2, <2>1, <2>2, <2>3 DEF Paired
<1>5. ASSUME NEW m, Fits(m, channelTo) PROVE Fits(m, channelTo')
  BY <1>2, <1>5 DEF Fits
<1>6. \A k \in 1 .. Len(tasks) : tasks[k].channel <= issued /\ Fits(tasks[k], channelTo')
  BY <1>5 DEF BridgeInv
<1>7. bridgeModel \in [Joined -> [Bridge!Nrs -> {"none", "connected", "established"}]]
      /\ \A x \in Joined : \A n \in Bridge!Nrs : bridgeModel[x][n] # "none" =>
           \E y \in Joined : channelTo[x][y] = n
  BY DEF BridgeInv
<1>8. bridgeModel' \in [Joined -> [Bridge!Nrs -> {"none", "connected", "established"}]]
  BY <1>1, <1>7
<1>9. \A x \in Joined : \A n \in Bridge!Nrs : bridgeModel'[x][n] # "none" =>
        \E y \in Joined : channelTo'[x][y] = n
  <2>1. SUFFICES ASSUME NEW x \in Joined, NEW n \in Bridge!Nrs, bridgeModel'[x][n] # "none"
                 PROVE  \E y \in Joined : channelTo'[x][y] = n
    OBVIOUS
  <2>2. /\ ~ \E y \in Joined : channelTo[x][y] = n /\ channelTo'[x][y] # n
        /\ bridgeModel[x][n] # "none"
    BY <1>1, <2>1
  <2>3. QED
    BY <1>7, <2>2
<1>10. QED
  BY <1>1, <1>4, <1>6, <1>8, <1>9 DEF BridgeInv

(* What a Repo answers with, on the channels there are.                    *)
LEMMA BridgeAnswers ==
  ASSUME BridgeInv, NEW a \in Joined, NEW b \in Joined,
         NEW type \in {"establish-request", "establish-response", "sync"}
  PROVE  /\ Bridge!Routed(type, a, b, channelTo) \in Seq(Carried)
         /\ \A k \in 1 .. Len(Bridge!Routed(type, a, b, channelTo)) :
              LET m == Bridge!Routed(type, a, b, channelTo)[k]
              IN  m.channel <= issued /\ Fits(m, channelTo)
<1>1. CASE channelTo[b][a] # 0 /\ channelTo[a][b] # 0
  <2> DEFINE m == Bridge!Between(type, a, b, channelTo)
  <2>1. m \in Carried /\ m.channel <= issued /\ Fits(m, channelTo)
    BY <1>1, BridgeSent DEF BridgeInv
  <2>2. Bridge!Routed(type, a, b, channelTo) = <<m>>
    BY <1>1 DEF Bridge!Routed
  <2> HIDE DEF m
  <2>3. QED
    BY <2>1, <2>2
<1>2. CASE ~ (channelTo[b][a] # 0 /\ channelTo[a][b] # 0)
  BY <1>2 DEF Bridge!Routed
<1>3. QED
  BY <1>1, <1>2

(* A message is handled: the answers go out on present channels.           *)
LEMMA BridgeDelivers == ASSUME BridgeBounds, BridgeInv, Bridge!Deliver PROVE BridgeInv'
<1> DEFINE m == Head(tasks)
<1>1. /\ tasks # <<>> /\ tasks \in Seq(Carried) /\ m \in Carried
      /\ \A k \in 1 .. Len(tasks) : tasks[k].channel <= issued /\ Fits(tasks[k], channelTo)
  <2>1. /\ tasks # <<>> /\ tasks \in Seq(Carried)
        /\ \A k \in 1 .. Len(tasks) : tasks[k].channel <= issued /\ Fits(tasks[k], channelTo)
    BY DEF Bridge!Deliver, BridgeInv
  <2>2. m \in Carried
    BY <2>1
  <2>3. QED
    BY <2>1, <2>2
<1>2. /\ Tail(tasks) \in Seq(Carried)
      /\ \A k \in 1 .. Len(Tail(tasks)) : Tail(tasks)[k].channel <= issued /\ Fits(Tail(tasks)[k], channelTo)
  BY <1>1
<1>3. m.channel \in Nat /\ m.channel # 0 /\ m.channel <= issued
  <2>1. tasks[1] = m /\ 1 \in 1 .. Len(tasks)
    BY <1>1
  <2>2. QED
    BY <1>1, <2>1 DEF Carried, Fits
<1> DEFINE request == Bridge!Routed("establish-response", m.to, m.from, channelTo)
           sync == Bridge!Routed("sync", m.to, m.from, channelTo)
<1>4. UNCHANGED <<registered, bridgeStarts, issued, channelTo>>
  BY DEF Bridge!Deliver
<1>5. PICK answer : /\ answer \in {request \o sync, sync, <<>>} /\ tasks' = Tail(tasks) \o answer
                    /\ \/ bridgeModel' = bridgeModel
                       \/ /\ bridgeModel[m.to][m.channel] # "none"
                          /\ bridgeModel' = [bridgeModel EXCEPT ![m.to][m.channel] = "established"]
  BY DEF Bridge!Deliver, Bridge!Receiver
<1>6. m.to \in Joined /\ m.from \in Joined
  BY <1>1 DEF Carried
<1> HIDE DEF m
<1>7. /\ request \in Seq(Carried) /\ sync \in Seq(Carried)
      /\ \A k \in 1 .. Len(request) : request[k].channel <= issued /\ Fits(request[k], channelTo)
      /\ \A k \in 1 .. Len(sync) : sync[k].channel <= issued /\ Fits(sync[k], channelTo)
  BY <1>6, BridgeAnswers
<1> HIDE DEF request, sync
<1>8. answer \in Seq(Carried) /\ \A k \in 1 .. Len(answer) : answer[k].channel <= issued /\ Fits(answer[k], channelTo)
  <2>1. CASE answer = request \o sync
    BY <2>1, <1>7, BridgeBoth
  <2>2. CASE answer = <<>>
    BY <2>2
  <2>3. QED
    BY <1>5, <1>7, <2>1, <2>2
<1>9. tasks' \in Seq(Carried) /\ \A k \in 1 .. Len(tasks') : tasks'[k].channel <= issued /\ Fits(tasks'[k], channelTo)
  BY <1>2, <1>5, <1>8, BridgeBoth
<1>10. /\ bridgeModel \in [Joined -> [Bridge!Nrs -> {"none", "connected", "established"}]]
       /\ \A x \in Joined : \A n \in Bridge!Nrs : bridgeModel[x][n] # "none" =>
            \E y \in Joined : channelTo[x][y] = n
  BY DEF BridgeInv
<1>11. /\ bridgeModel' \in [Joined -> [Bridge!Nrs -> {"none", "connected", "established"}]]
       /\ \A x \in Joined : \A n \in Bridge!Nrs : bridgeModel'[x][n] # "none" => bridgeModel[x][n] # "none"
  <2>1. CASE bridgeModel' = bridgeModel
    BY <2>1, <1>10
  <2>2. CASE /\ bridgeModel[m.to][m.channel] # "none"
             /\ bridgeModel' = [bridgeModel EXCEPT ![m.to][m.channel] = "established"]
    <3> DEFINE row == [bridgeModel[m.to] EXCEPT ![m.channel] = "established"]
    <3>1. /\ row \in [Bridge!Nrs -> {"none", "connected", "established"}]
          /\ \A n \in Bridge!Nrs : row[n] # "none" => bridgeModel[m.to][n] # "none"
      BY <2>2, <1>6, <1>10
    <3>2. bridgeModel' = [bridgeModel EXCEPT ![m.to] = row]
      BY <2>2
    <3> HIDE DEF row
    <3>3. QED
      BY <3>1, <3>2, <1>6, <1>10
  <2>3. QED
    BY <1>5, <2>1, <2>2
<1>12. QED
  BY <1>4, <1>9, <1>10, <1>11 DEF BridgeInv

(* Every step keeps the invariant.                                         *)
LEMMA BridgeStep == ASSUME BridgeBounds, BridgeInv, [Bridge!Next]_(Bridge!vars) PROVE BridgeInv'
<1>1. CASE UNCHANGED Bridge!vars
  BY <1>1 DEF Bridge!vars, BridgeInv, Paired
<1>2. QED
  BY <1>1, BridgeStarts, BridgeStops, BridgeDelivers DEF Bridge!Next

(* What is handled was sent on the other end's present channel.            *)
LEMMA BridgeOwn ==
  ASSUME BridgeBounds, BridgeInv, tasks # <<>>,
         bridgeModel[Head(tasks).to][Bridge!Receiver(Head(tasks))] # "none"
  PROVE  channelTo[Head(tasks).from][Head(tasks).to] = Head(tasks).sent
<1> DEFINE m == Head(tasks)
<1>1. m \in Carried /\ m.channel <= issued /\ Fits(m, channelTo)
  <2>1. m = tasks[1] /\ 1 \in 1 .. Len(tasks) /\ m \in Carried
    BY DEF BridgeInv
  <2>2. QED
    BY <2>1 DEF BridgeInv
<1> HIDE DEF m
<1>2. m.to \in Joined /\ m.channel \in Nat /\ m.channel # 0
  BY <1>1 DEF Carried, Fits
<1>3. m.channel \in Bridge!Nrs
  <2>1. bridgeStarts * PerStart <= Bridge!MaxChannels /\ PerStart \in Nat
    BY <1>2, BridgeRoom DEF BridgeInv
  <2>2. bridgeStarts * PerStart \in Nat /\ Bridge!MaxChannels \in Nat
    BY <2>1, <1>2, BridgeRoom DEF BridgeInv, BridgeBounds
  <2>3. issued \in Nat /\ issued <= bridgeStarts * PerStart
    BY DEF BridgeInv
  <2>4. QED
    BY <1>1, <1>2, <2>1, <2>2, <2>3 DEF Bridge!Nrs
<1>4. bridgeModel[m.to][m.channel] # "none"
  BY DEF Bridge!Receiver, m
<1>5. PICK y \in Joined : channelTo[m.to][y] = m.channel
  BY <1>2, <1>3, <1>4 DEF BridgeInv
<1>6. QED
  BY <1>1, <1>2, <1>5 DEF Fits, m

(* Requests, on their way and handled, have channels of their own.         *)
Asks(m) == m.type = "establish-request"
Uses(m) == {m.sent, m.channel}
Handled(p) == {p[1], p[2]}
Pairs == Nat \X Nat
AskedOnce ==
  /\ requests \in Seq(Pairs)
  /\ \A k \in 1 .. Len(tasks) : Asks(tasks[k]) => \A n \in Uses(tasks[k]) : n <= issued
  /\ \A i \in 1 .. Len(requests) : \A n \in Handled(requests[i]) : n <= issued
  /\ \A k, l \in 1 .. Len(tasks) :
       k # l /\ Asks(tasks[k]) /\ Asks(tasks[l]) => Uses(tasks[k]) \cap Uses(tasks[l]) = {}
  /\ \A k \in 1 .. Len(tasks) : \A i \in 1 .. Len(requests) :
       Asks(tasks[k]) => Uses(tasks[k]) \cap Handled(requests[i]) = {}
  /\ \A i, j \in 1 .. Len(requests) : i # j => Handled(requests[i]) \cap Handled(requests[j]) = {}

(* At first nothing is asked.                                              *)
LEMMA AskedFirst == ASSUME Bridge!Init PROVE AskedOnce
<1>1. requests = <<>> /\ tasks = <<>>
  BY DEF Bridge!Init
<1>2. Len(requests) = 0 /\ Len(tasks) = 0 /\ requests \in Seq(Pairs)
  BY <1>1
<1>3. QED
  BY <1>2 DEF AskedOnce

(* Two sequences, one after the other.                                     *)
LEMMA BridgeJoined ==
  ASSUME NEW s \in Seq(Carried), NEW t \in Seq(Carried)
  PROVE  \A k \in 1 .. Len(s \o t) :
           \/ k \in 1 .. Len(s) /\ (s \o t)[k] = s[k]
           \/ k > Len(s) /\ k - Len(s) \in 1 .. Len(t) /\ (s \o t)[k] = t[k - Len(s)]
OBVIOUS

(* Those of an adapter that joins have numbers that are new.               *)
LEMMA AskedStarts ==
  ASSUME BridgeBounds, BridgeInv, AskedOnce, NEW a \in Joined, Bridge!Start(a) PROVE AskedOnce'
<1>1. a \notin registered /\ UNCHANGED requests
  BY DEF Bridge!Start
<1>2. PICK order \in Bridge!OrdersOf(registered) :
        LET ch == Bridge!Numbered(a, order)
        IN  issued' = issued + 2 * Len(order) /\ tasks' = tasks \o Bridge!Establish(a, order, ch)
  BY DEF Bridge!Start
<1> DEFINE ch == Bridge!Numbered(a, order)
           new == Bridge!Establish(a, order, ch)
           last == issued + 2 * Len(order)
<1>3. /\ order \in Seq(registered) /\ DOMAIN order = 1 .. Len(order) /\ Paired(ch, registered \cup {a}, last)
      /\ \A x \in registered : ch[x][a] > issued /\ ch[a][x] > issued
  BY <1>1, BridgeNumbers
<1>4. \A k, l \in 1 .. Len(order) : order[k] = order[l] => k = l
  BY <1>3 DEF Bridge!OrdersOf, Bridge!Bijection, Bridge!Injection, Bridge!IsInjective
<1>5. new = [k \in DOMAIN order |-> Bridge!Between("establish-request", a, order[k], ch)]
  BY DEF Bridge!Establish, Bridge!AllRouted
<1>6. tasks' = tasks \o new /\ issued' = last
  BY <1>2
<1>7. issued \in Nat /\ registered \subseteq Joined /\ tasks \in Seq(Carried) /\ Len(order) \in Nat
  BY <1>3 DEF BridgeInv
<1>8. last \in Nat /\ issued <= last
  BY <1>7
<1> HIDE DEF ch, last, new
<1>9. \A k \in 1 .. Len(order) :
        /\ new[k] \in Carried /\ order[k] \in registered
        /\ new[k].sent = ch[a][order[k]] /\ new[k].channel = ch[order[k]][a]
        /\ \A n \in Uses(new[k]) : n > issued /\ n <= last /\ n \in Nat
  <2> SUFFICES ASSUME NEW k \in 1 .. Len(order)
               PROVE  /\ new[k] \in Carried /\ order[k] \in registered
                      /\ new[k].sent = ch[a][order[k]] /\ new[k].channel = ch[order[k]][a]
                      /\ \A n \in Uses(new[k]) : n > issued /\ n <= last /\ n \in Nat
    OBVIOUS
  <2>1. order[k] \in registered /\ order[k] \in Joined
    BY <1>3, <1>7
  <2>2. new[k] = Bridge!Between("establish-request", a, order[k], ch)
    BY <1>3, <1>5
  <2>3. /\ ch[a][order[k]] \in Nat /\ ch[order[k]][a] \in Nat
        /\ ch[a][order[k]] <= last /\ ch[order[k]][a] <= last
        /\ ch[a][order[k]] > issued /\ ch[order[k]][a] > issued
    BY <1>3, <2>1 DEF Paired, Rows
  <2>4. QED
    BY <2>1, <2>2, <2>3 DEF Bridge!Between, Carried, Uses
<1>10. new \in Seq(Carried) /\ Len(new) = Len(order)
  <2>1. new \in [1 .. Len(order) -> Carried]
    BY <1>3, <1>5, <1>9
  <2>2. QED
    BY <1>7, <2>1
<1>11. \A k, l \in 1 .. Len(order) : k # l => Uses(new[k]) \cap Uses(new[l]) = {}
  <2> SUFFICES ASSUME NEW k \in 1 .. Len(order), NEW l \in 1 .. Len(order), k # l
               PROVE  Uses(new[k]) \cap Uses(new[l]) = {}
    OBVIOUS
  <2>1. order[k] # order[l] /\ order[k] # a /\ order[l] # a
        /\ order[k] \in Joined /\ order[l] \in Joined
    BY <1>1, <1>4, <1>7, <1>9
  <2>2. /\ ch[a][order[k]] # 0 /\ ch[order[k]][a] # 0 /\ ch[a][order[l]] # 0 /\ ch[order[l]][a] # 0
    BY <1>3, <1>7, <1>9
  <2>3. \A x, y, u, v \in Joined : ch[x][y] # 0 /\ ch[x][y] = ch[u][v] => x = u /\ y = v
    BY <1>3 DEF Paired
  <2>4. {ch[a][order[k]], ch[order[k]][a]} \cap {ch[a][order[l]], ch[order[l]][a]} = {}
    BY <2>1, <2>2, <2>3
  <2>5. QED
    BY <1>9, <2>4 DEF Uses
<1>12. \A k \in 1 .. Len(tasks') :
         \/ k \in 1 .. Len(tasks) /\ tasks'[k] = tasks[k]
         \/ k > Len(tasks) /\ k - Len(tasks) \in 1 .. Len(order) /\ tasks'[k] = new[k - Len(tasks)]
  BY <1>6, <1>7, <1>10, BridgeJoined
<1>13. Len(tasks) \in Nat /\ Len(tasks') \in Nat /\ \A k \in 1 .. Len(tasks) : Uses(tasks[k]) \subseteq Nat
  <2>1. Len(tasks) \in Nat /\ tasks \o new \in Seq(Carried)
    BY <1>7, <1>10
  <2>2. Len(tasks \o new) \in Nat
    BY <2>1
  <2>3. \A k \in 1 .. Len(tasks) : tasks[k] \in Carried
    BY <1>7
  <2>4. \A k \in 1 .. Len(tasks) : Uses(tasks[k]) \subseteq Nat
    BY <2>3 DEF Uses, Carried
  <2>5. QED
    BY <1>6, <2>1, <2>2, <2>4
<1>14. \A k \in 1 .. Len(tasks) : Asks(tasks[k]) => \A n \in Uses(tasks[k]) : n <= issued /\ n \in Nat
  BY <1>13 DEF AskedOnce
<1>15. \A i \in 1 .. Len(requests) : \A n \in Handled(requests[i]) : n <= issued /\ n \in Nat
  BY DEF AskedOnce, Handled, Pairs
<1>16. \A k \in 1 .. Len(tasks') : Asks(tasks'[k]) => \A n \in Uses(tasks'[k]) : n <= last
  <2> SUFFICES ASSUME NEW k \in 1 .. Len(tasks'), Asks(tasks'[k]), NEW n \in Uses(tasks'[k]) PROVE n <= last
    OBVIOUS
  <2>1. CASE k \in 1 .. Len(tasks) /\ tasks'[k] = tasks[k]
    BY <1>7, <1>8, <1>14, <2>1
  <2>2. CASE k - Len(tasks) \in 1 .. Len(order) /\ tasks'[k] = new[k - Len(tasks)]
    BY <1>9, <2>2
  <2>3. QED
    BY <1>12, <2>1, <2>2
<1>17. \A i \in 1 .. Len(requests) : \A n \in Handled(requests[i]) : n <= last
  BY <1>7, <1>8, <1>15
<1>18. ASSUME NEW k \in 1 .. Len(tasks'), NEW l \in 1 .. Len(tasks'), k # l,
              Asks(tasks'[k]), Asks(tasks'[l])
       PROVE  Uses(tasks'[k]) \cap Uses(tasks'[l]) = {}
  <2>1. CASE k \in 1 .. Len(tasks) /\ tasks'[k] = tasks[k] /\ l \in 1 .. Len(tasks) /\ tasks'[l] = tasks[l]
    BY <1>18, <2>1 DEF AskedOnce
  <2>2. CASE /\ k \in 1 .. Len(tasks) /\ tasks'[k] = tasks[k]
             /\ l - Len(tasks) \in 1 .. Len(order) /\ tasks'[l] = new[l - Len(tasks)]
    <3>1. \A n \in Uses(tasks'[k]) : n <= issued /\ n \in Nat
      BY <1>14, <1>18, <2>2
    <3>2. \A n \in Uses(tasks'[l]) : n > issued /\ n \in Nat
      BY <1>9, <2>2
    <3>3. QED
      BY <1>7, <3>1, <3>2
  <2>3. CASE /\ l \in 1 .. Len(tasks) /\ tasks'[l] = tasks[l]
             /\ k - Len(tasks) \in 1 .. Len(order) /\ tasks'[k] = new[k - Len(tasks)]
    <3>1. \A n \in Uses(tasks'[l]) : n <= issued /\ n \in Nat
      BY <1>14, <1>18, <2>3
    <3>2. \A n \in Uses(tasks'[k]) : n > issued /\ n \in Nat
      BY <1>9, <2>3
    <3>3. QED
      BY <1>7, <3>1, <3>2
  <2>4. CASE /\ k - Len(tasks) \in 1 .. Len(order) /\ tasks'[k] = new[k - Len(tasks)]
             /\ l - Len(tasks) \in 1 .. Len(order) /\ tasks'[l] = new[l - Len(tasks)]
    <3>1. k - Len(tasks) # l - Len(tasks)
      BY <1>13, <1>18
    <3>2. QED
      BY <1>11, <2>4, <3>1
  <2>5. QED
    BY <1>12, <2>1, <2>2, <2>3, <2>4
<1>19. ASSUME NEW k \in 1 .. Len(tasks'), NEW i \in 1 .. Len(requests), Asks(tasks'[k])
       PROVE  Uses(tasks'[k]) \cap Handled(requests[i]) = {}
  <2>1. CASE k \in 1 .. Len(tasks) /\ tasks'[k] = tasks[k]
    BY <1>19, <2>1 DEF AskedOnce
  <2>2. CASE k - Len(tasks) \in 1 .. Len(order) /\ tasks'[k] = new[k - Len(tasks)]
    <3>1. \A n \in Uses(tasks'[k]) : n > issued /\ n \in Nat
      BY <1>9, <2>2
    <3>2. \A n \in Handled(requests[i]) : n <= issued /\ n \in Nat
      BY <1>15
    <3>3. QED
      BY <1>7, <3>1, <3>2
  <2>3. QED
    BY <1>12, <2>1, <2>2
<1>20. QED
  BY <1>1, <1>6, <1>16, <1>17, <1>18, <1>19 DEF AskedOnce

(* A request is handled and no longer on its way; answers are no requests. *)
LEMMA AskedDelivers ==
  ASSUME BridgeBounds, BridgeInv, AskedOnce, Bridge!Deliver PROVE AskedOnce'
<1> DEFINE m == Head(tasks)
           first == Bridge!Routed("establish-response", m.to, m.from, channelTo)
           sync == Bridge!Routed("sync", m.to, m.from, channelTo)
<1>1. tasks # <<>> /\ tasks \in Seq(Carried) /\ issued' = issued
  BY DEF Bridge!Deliver, BridgeInv
<1>2. PICK answer \in {first \o sync, sync, <<>>} :
        /\ tasks' = Tail(tasks) \o answer
        /\ \/ UNCHANGED requests
           \/ Asks(m) /\ requests' = Append(requests, <<m.sent, m.channel>>)
  BY DEF Bridge!Deliver, Bridge!Receiver, Asks
<1>3. /\ m = tasks[1] /\ 1 \in 1 .. Len(tasks) /\ m \in Carried /\ m.to \in Joined /\ m.from \in Joined
      /\ Tail(tasks) \in Seq(Carried) /\ Len(Tail(tasks)) = Len(tasks) - 1 /\ Len(tasks) \in Nat
      /\ \A k \in 1 .. Len(Tail(tasks)) : k + 1 \in 1 .. Len(tasks) /\ Tail(tasks)[k] = tasks[k + 1]
  <2>1. Len(tasks) \in Nat /\ 1 \in 1 .. Len(tasks) /\ m = tasks[1]
    BY <1>1
  <2>2. tasks[1] \in Carried
    BY <1>1, <2>1
  <2>3. m \in Carried /\ m.to \in Joined /\ m.from \in Joined
    BY <2>1, <2>2 DEF Carried
  <2>4. Tail(tasks) \in Seq(Carried) /\ Len(Tail(tasks)) = Len(tasks) - 1
    BY <1>1
  <2>5. \A k \in 1 .. Len(Tail(tasks)) : k + 1 \in 1 .. Len(tasks) /\ Tail(tasks)[k] = tasks[k + 1]
    BY <1>1
  <2> HIDE DEF m
  <2>6. QED
    BY <2>1, <2>2, <2>3, <2>4, <2>5
<1> HIDE DEF m
<1>4. /\ first \in Seq(Carried) /\ sync \in Seq(Carried)
      /\ \A k \in 1 .. Len(first) : ~ Asks(first[k])
      /\ \A k \in 1 .. Len(sync) : ~ Asks(sync[k])
  <2>1. first \in Seq(Carried) /\ sync \in Seq(Carried)
    BY <1>3, BridgeAnswers
  <2>2. first = <<>> \/ first = <<Bridge!Between("establish-response", m.to, m.from, channelTo)>>
    BY DEF Bridge!Routed
  <2>3. sync = <<>> \/ sync = <<Bridge!Between("sync", m.to, m.from, channelTo)>>
    BY DEF Bridge!Routed
  <2>4. ~ Asks(Bridge!Between("establish-response", m.to, m.from, channelTo))
        /\ ~ Asks(Bridge!Between("sync", m.to, m.from, channelTo))
    BY DEF Bridge!Between, Asks
  <2> HIDE DEF first, sync
  <2>5. QED
    BY <2>1, <2>2, <2>3, <2>4
<1> HIDE DEF first, sync
<1>5. answer \in Seq(Carried) /\ \A k \in 1 .. Len(answer) : ~ Asks(answer[k])
  <2>1. CASE answer = first \o sync
    <3>1. first \o sync \in Seq(Carried)
      BY <1>4
    <3>2. QED
      BY <1>4, <2>1, <3>1, BridgeJoined
  <2>2. CASE answer = <<>>
    BY <2>2
  <2>3. QED
    BY <1>2, <1>4, <2>1, <2>2
<1>6. \A k \in 1 .. Len(tasks') : Asks(tasks'[k]) =>
        /\ k + 1 \in 1 .. Len(tasks) /\ k + 1 # 1 /\ tasks'[k] = tasks[k + 1]
  BY <1>2, <1>3, <1>5, BridgeJoined
<1>7. tasks' \in Seq(Carried)
  BY <1>2, <1>3, <1>5
<1>8. CASE UNCHANGED requests
  <2>1. \A k, l \in 1 .. Len(tasks') : k # l => k + 1 # l + 1
    BY <1>7
  <2>2. QED
    BY <1>1, <1>6, <1>8, <2>1 DEF AskedOnce
<1>9. CASE Asks(m) /\ requests' = Append(requests, <<m.sent, m.channel>>)
  <2>1. <<m.sent, m.channel>> \in Pairs /\ requests \in Seq(Pairs)
        /\ Handled(<<m.sent, m.channel>>) = Uses(m)
    BY <1>3 DEF Pairs, Carried, AskedOnce, Handled, Uses
  <2>2. /\ requests' \in Seq(Pairs) /\ Len(requests') = Len(requests) + 1 /\ Len(requests) \in Nat
        /\ \A i \in 1 .. Len(requests) : requests'[i] = requests[i]
        /\ requests'[Len(requests) + 1] = <<m.sent, m.channel>>
    BY <1>9, <2>1, AppendProperties
  <2>3. \A i \in 1 .. Len(requests') :
          \/ i \in 1 .. Len(requests) /\ Handled(requests'[i]) = Handled(requests[i])
          \/ i = Len(requests) + 1 /\ Handled(requests'[i]) = Uses(m)
    BY <2>1, <2>2
  <2>4. \A i \in 1 .. Len(requests') : \A n \in Handled(requests'[i]) : n <= issued
    BY <1>3, <1>9, <2>3 DEF AskedOnce
  <2>5. ASSUME NEW k \in 1 .. Len(tasks'), NEW i \in 1 .. Len(requests'), Asks(tasks'[k])
        PROVE  Uses(tasks'[k]) \cap Handled(requests'[i]) = {}
    <3>1. k + 1 \in 1 .. Len(tasks) /\ k + 1 # 1 /\ tasks'[k] = tasks[k + 1]
      BY <1>6, <2>5
    <3>2. CASE i \in 1 .. Len(requests) /\ Handled(requests'[i]) = Handled(requests[i])
      BY <2>5, <3>1, <3>2 DEF AskedOnce
    <3>3. CASE Handled(requests'[i]) = Uses(m)
      <4>1. Uses(tasks[k + 1]) \cap Uses(tasks[1]) = {}
        BY <1>3, <1>9, <2>5, <3>1 DEF AskedOnce
      <4>2. QED
        BY <1>3, <3>1, <3>3, <4>1
    <3>4. QED
      BY <2>3, <3>2, <3>3
  <2>6. ASSUME NEW i \in 1 .. Len(requests'), NEW j \in 1 .. Len(requests'), i # j
        PROVE  Handled(requests'[i]) \cap Handled(requests'[j]) = {}
    <3>1. \A l \in 1 .. Len(requests) : Uses(m) \cap Handled(requests[l]) = {}
      BY <1>3, <1>9 DEF AskedOnce
    <3>2. \A k, l \in 1 .. Len(requests) : k # l => Handled(requests[k]) \cap Handled(requests[l]) = {}
      BY DEF AskedOnce
    <3>3. CASE i \in 1 .. Len(requests) /\ j \in 1 .. Len(requests)
      BY <2>3, <2>6, <3>2, <3>3, <2>2
    <3>4. CASE i = Len(requests) + 1 /\ j \in 1 .. Len(requests)
      BY <2>2, <2>3, <3>1, <3>4
    <3>5. CASE j = Len(requests) + 1 /\ i \in 1 .. Len(requests)
      BY <2>2, <2>3, <3>1, <3>5
    <3>6. QED
      BY <2>3, <2>6, <3>3, <3>4, <3>5
  <2>7. \A k, l \in 1 .. Len(tasks') : k # l => k + 1 # l + 1
    BY <1>7
  <2>8. /\ \A k \in 1 .. Len(tasks') : Asks(tasks'[k]) => \A n \in Uses(tasks'[k]) : n <= issued
        /\ \A k, l \in 1 .. Len(tasks') :
             k # l /\ Asks(tasks'[k]) /\ Asks(tasks'[l]) => Uses(tasks'[k]) \cap Uses(tasks'[l]) = {}
    BY <1>6, <2>7 DEF AskedOnce
  <2>9. QED
    BY <1>1, <2>2, <2>4, <2>5, <2>6, <2>8 DEF AskedOnce
<1>10. QED
  BY <1>2, <1>8, <1>9

(* Every step of the Bridge keeps them apart.                              *)
LEMMA AskedStep ==
  ASSUME BridgeBounds, BridgeInv, AskedOnce, [Bridge!Next]_(Bridge!vars) PROVE AskedOnce'
<1>1. CASE UNCHANGED <<tasks, requests, issued>>
  BY <1>1 DEF AskedOnce
<1>2. ASSUME NEW a \in Joined, Bridge!Stop(a) PROVE UNCHANGED <<tasks, requests, issued>>
  BY <1>2 DEF Bridge!Stop
<1>3. QED
  BY <1>1, <1>2, AskedStarts, AskedDelivers DEF Bridge!Next, Bridge!vars

(* So two channels are established by one request.                         *)
LEMMA BridgeOnce == ASSUME AskedOnce PROVE Bridge!EstablishedOnce
<1>1. requests \in Seq(Pairs) /\ DOMAIN requests = 1 .. Len(requests)
  BY DEF AskedOnce
<1>2. \A i, j \in DOMAIN requests : i # j => Handled(requests[i]) \cap Handled(requests[j]) = {}
  BY <1>1 DEF AskedOnce
<1>3. \A i, j \in DOMAIN requests : requests[i] = requests[j] => i = j
  BY <1>2 DEF Handled
<1>4. QED
  BY <1>2, <1>3 DEF Bridge!EstablishedOnce, Handled

(* What a Repo handles was sent on the other end's present channel, and a  *)
(* pair of channels is established by one request.                         *)
LEMMA BridgeSound ==
  ASSUME BridgeBounds PROVE Bridge!Spec => Bridge!OwnConnection /\ []Bridge!EstablishedOnce
<1>1. ASSUME BridgeInv, [Bridge!Next]_(Bridge!vars)
      PROVE  [tasks # <<>> /\ Bridge!Deliver =>
                LET m == Head(tasks)
                    n == Bridge!Receiver(m)
                IN  n # 0 /\ bridgeModel[m.to][n] # "none" => channelTo[m.from][m.to] = m.sent]_(Bridge!vars)
  BY <1>1, BridgeOwn
<1>2. QED
  BY <1>1, BridgeStart, BridgeStep, AskedFirst, AskedStep, BridgeOnce, PTL DEF Bridge!Spec, Bridge!OwnConnection

-----------------------------------------------------------------------------
(* The data channels of two peers, whose application attaches them to      *)
(* adapters that have started.                                             *)

Rtc == INSTANCE WebRtcLink WITH
  Last <- RtcLast, MaxAttaches <- RtcAttaches, MaxStops <- RtcStops,
  StartsFirst <- TRUE, OwnCleanup <- RtcOwn, model <- rtcModel, made <- rtcMade

(* The readyStates of one end's data channels, and its Loro channels.      *)
Ends == [Rtc!Channels -> {"connecting", "open", "closed"}]
Models == [Rtc!Channels -> {"none", "connected", "established"}]

(* The values of what the adapters keep.                                   *)
RtcTyped ==
  /\ started \in [Rtc!Sides -> BOOLEAN] /\ dc \in [Rtc!Sides -> Ends]
  /\ attached \in [Rtc!Sides -> 0 .. RtcLast] /\ loro \in [Rtc!Sides -> 0 .. RtcLast]
  /\ listening \in [Rtc!Sides -> SUBSET Rtc!Channels]
  /\ rtcModel \in [Rtc!Sides -> Models]

(* What the adapter of a side has attached, and the Loro channel of it:    *)
(* there is one exactly while the data channel is open.                    *)
Served(s) ==
  /\ listening[s] = {attached[s]} \ {0}
  /\ loro[s] # 0 => loro[s] = attached[s]
  /\ attached[s] # 0 => started[s] /\ (loro[s] = attached[s] <=> dc[s][attached[s]] = "open")
  /\ \A d \in Rtc!Channels : rtcModel[s][d] # "none" <=> loro[s] = d

(* The inductive invariant.                                                *)
RtcInv == RtcTyped /\ \A s \in Rtc!Sides : Served(s)

(* At first nothing is attached.                                           *)
LEMMA RtcStart == ASSUME RtcLast \in Nat, Rtc!Init PROVE RtcInv
BY DEF Rtc!Init, RtcInv, RtcTyped, Served, Ends, Models, Rtc!Sides, Rtc!Channels

(* An adapter starts.                                                      *)
LEMMA RtcStarts == ASSUME RtcLast \in Nat, RtcInv, NEW s \in Rtc!Sides, Rtc!Start(s) PROVE RtcInv'
BY DEF Rtc!Start, RtcInv, RtcTyped, Served, Ends, Models, Rtc!app

(* The other side's rows stay as they are.                                 *)
Same(t) ==
  /\ started'[t] = started[t] /\ dc'[t] = dc[t] /\ attached'[t] = attached[t]
  /\ loro'[t] = loro[t] /\ listening'[t] = listening[t] /\ rtcModel'[t] = rtcModel[t]
(* No Loro channel.                                                        *)
Alone == [d \in Rtc!Channels |-> "none"]

(* It is enough to look at the side that takes the step.                   *)
LEMMA RtcRow ==
  ASSUME RtcInv, RtcTyped', NEW s \in Rtc!Sides, Served(s)',
         \A t \in Rtc!Sides : t # s => Same(t)
  PROVE RtcInv'
<1>1. ASSUME NEW t \in Rtc!Sides, t # s PROVE Served(t)'
  BY <1>1 DEF RtcInv, Served, Same
<1>2. QED
  BY <1>1 DEF RtcInv

(* Detaching leaves neither a Loro channel nor a listener.                 *)
LEMMA RtcRemoved ==
  ASSUME RtcLast \in Nat, RtcInv, NEW s \in Rtc!Sides
  PROVE /\ Rtc!Removed(s) = [rtcModel EXCEPT ![s] = Alone]
        /\ Rtc!ListenersAfterDetach(s) = {}
<1>1. rtcModel[s] \in Models /\ rtcModel \in [Rtc!Sides -> Models] /\ loro[s] \in 0 .. RtcLast
  BY DEF RtcInv, RtcTyped
<1>2. \A d \in Rtc!Channels : d # loro[s] => rtcModel[s][d] = "none"
  BY <1>1 DEF RtcInv, Served, Models
<1>3. CASE loro[s] = 0
  <2>1. rtcModel[s] = Alone
    BY <1>1, <1>2, <1>3 DEF Models, Alone, Rtc!Channels
  <2>2. QED
    BY <1>1, <2>1, <1>3 DEF Rtc!Removed, Rtc!ListenersAfterDetach, RtcInv, Served
<1>4. CASE loro[s] # 0
  <2>1. [rtcModel[s] EXCEPT ![loro[s]] = "none"] = Alone
    BY <1>1, <1>2, <1>4 DEF Models, Alone, Rtc!Channels
  <2>2. QED
    BY <1>1, <2>1, <1>4 DEF Rtc!Removed, Rtc!ListenersAfterDetach, RtcInv, Served
<1>5. QED
  BY <1>3, <1>4

(* That is a value of the model.                                           *)
LEMMA RtcAlone == Alone \in Models
BY DEF Alone, Models

(* Detaching keeps the invariant,                                          *)
LEMMA RtcDetach ==
  ASSUME RtcLast \in Nat, RtcInv, NEW s \in Rtc!Sides, Rtc!DetachDataChannel(s),
         started' \in [Rtc!Sides -> BOOLEAN],
         \A t \in Rtc!Sides : t # s => started'[t] = started[t]
  PROVE RtcInv'
<1>1. /\ attached' = [attached EXCEPT ![s] = 0] /\ listening' = [listening EXCEPT ![s] = {}]
      /\ loro' = [loro EXCEPT ![s] = 0] /\ rtcModel' = [rtcModel EXCEPT ![s] = Alone]
      /\ dc' = dc
  BY RtcRemoved DEF Rtc!DetachDataChannel, Rtc!ModelAfterDetach
<1>2. RtcTyped'
  BY <1>1, RtcAlone DEF RtcInv, RtcTyped
<1>3. Served(s)'
  BY <1>1 DEF RtcInv, RtcTyped, Served, Alone, Rtc!Channels
<1>4. \A t \in Rtc!Sides : t # s => Same(t)
  BY <1>1 DEF RtcInv, RtcTyped, Same
<1>5. QED
  BY <1>2, <1>3, <1>4, RtcRow

(* and so onStop does,                                                     *)
LEMMA RtcStop == ASSUME RtcLast \in Nat, RtcInv, NEW s \in Rtc!Sides, Rtc!Stop(s) PROVE RtcInv'
<1>1. started' \in [Rtc!Sides -> BOOLEAN] /\ \A t \in Rtc!Sides : t # s => started'[t] = started[t]
  BY DEF Rtc!Stop, RtcInv, RtcTyped
<1>2. CASE attached[s] # 0
  BY <1>1, <1>2, RtcDetach DEF Rtc!Stop
<1>3. CASE attached[s] = 0
  BY <1>1, <1>3 DEF Rtc!Stop, RtcInv, RtcTyped, Served
<1>4. QED
  BY <1>2, <1>3

(* and the function that attaching returned.                               *)
LEMMA RtcClean == ASSUME RtcLast \in Nat, RtcInv, NEW s \in Rtc!Sides, NEW d \in Rtc!Channels, Rtc!CleanUp(s, d) PROVE RtcInv'
<1>1. started' \in [Rtc!Sides -> BOOLEAN] /\ \A t \in Rtc!Sides : t # s => started'[t] = started[t]
  BY DEF Rtc!CleanUp, RtcInv, RtcTyped
<1>2. QED
  BY <1>1, RtcDetach DEF Rtc!CleanUp

(* A message establishes the Loro channel there is.                        *)
LEMMA RtcMessage ==
  ASSUME RtcLast \in Nat, RtcInv, NEW s \in Rtc!Sides, NEW d \in Rtc!Channels,
         Rtc!Message(s, d)
  PROVE RtcInv'
<1>1. UNCHANGED <<started, dc, attached, listening, loro>>
  BY DEF Rtc!Message
<1>2. CASE rtcModel' = rtcModel
  BY <1>1, <1>2 DEF RtcInv, RtcTyped, Served
<1>3. CASE loro[s] # 0 /\ rtcModel' = [rtcModel EXCEPT ![s][loro[s]] = "established"]
  <2> DEFINE row == [rtcModel[s] EXCEPT ![loro[s]] = "established"]
  <2>1. rtcModel[s] \in Models /\ rtcModel \in [Rtc!Sides -> Models] /\ loro[s] \in 0 .. RtcLast
    BY DEF RtcInv, RtcTyped
  <2>2. row \in Models
    BY <2>1 DEF Models
  <2>3. \A e \in Rtc!Channels : row[e] # "none" <=> loro[s] = e
    BY <2>1, <1>3 DEF RtcInv, Served, Models
  <2>4. rtcModel' = [rtcModel EXCEPT ![s] = row]
    BY <1>3
  <2> HIDE DEF row
  <2>5. RtcTyped'
    BY <1>1, <2>2, <2>4 DEF RtcInv, RtcTyped
  <2>6. Served(s)'
    BY <1>1, <2>1, <2>3, <2>4 DEF RtcInv, Served
  <2>7. \A t \in Rtc!Sides : t # s => Same(t)
    BY <1>1, <2>1, <2>4 DEF Same
  <2>8. QED
    BY <2>5, <2>6, <2>7, RtcRow
<1>4. QED
  BY <1>2, <1>3 DEF Rtc!Message, Rtc!Heard

(* What an end of a data channel becomes.                                  *)
LEMMA RtcEnd ==
  ASSUME RtcLast \in Nat, RtcInv, NEW s \in Rtc!Sides, NEW d \in Rtc!Channels,
         NEW at \in {"connecting", "open", "closed"}, dc' = [dc EXCEPT ![s][d] = at]
  PROVE /\ dc' \in [Rtc!Sides -> Ends] /\ dc'[s][d] = at
        /\ \A e \in Rtc!Channels : e # d => dc'[s][e] = dc[s][e]
        /\ \A t \in Rtc!Sides : t # s => dc'[t] = dc[t]
<1>1. dc \in [Rtc!Sides -> Ends] /\ dc[s] \in Ends
  BY DEF RtcInv, RtcTyped
<1>2. [dc[s] EXCEPT ![d] = at] \in Ends
  BY <1>1 DEF Ends
<1>3. dc' = [dc EXCEPT ![s] = [dc[s] EXCEPT ![d] = at]]
  OBVIOUS
<1>4. dc'[s] = [dc[s] EXCEPT ![d] = at]
  BY <1>1, <1>3
<1>5. QED
  BY <1>1, <1>2, <1>3, <1>4 DEF Ends

(* A data channel closes: its Loro channel goes, attached or not.          *)
LEMMA RtcCloses ==
  ASSUME RtcLast \in Nat, RtcInv, NEW s \in Rtc!Sides, NEW d \in Rtc!Channels,
         Rtc!Closes(s, d)
  PROVE RtcInv'
<1>1. dc' = [dc EXCEPT ![s][d] = "closed"] /\ UNCHANGED <<started, attached, listening>>
  BY DEF Rtc!Closes
<1>2. /\ dc' \in [Rtc!Sides -> Ends] /\ dc'[s][d] = "closed"
      /\ \A e \in Rtc!Channels : e # d => dc'[s][e] = dc[s][e]
      /\ \A t \in Rtc!Sides : t # s => dc'[t] = dc[t]
  BY <1>1, RtcEnd
<1>3. Served(s) /\ RtcTyped /\ attached[s] \in 0 .. RtcLast
  BY DEF RtcInv, RtcTyped
<1>4. CASE d \in listening[s]
  <2>1. loro' = [loro EXCEPT ![s] = 0] /\ rtcModel' = [rtcModel EXCEPT ![s] = Alone]
    BY <1>4, RtcRemoved DEF Rtc!Closes
  <2>2. RtcTyped'
    BY <1>1, <1>2, <2>1, RtcAlone DEF RtcInv, RtcTyped
  <2>3. Served(s)'
    <3>1. attached[s] = d /\ loro'[s] = 0 /\ rtcModel'[s] = Alone
      BY <1>3, <1>4, <2>1 DEF Served, RtcTyped
    <3>2. QED
      BY <1>1, <1>2, <1>3, <3>1 DEF Served, Alone, Rtc!Channels
  <2>4. \A t \in Rtc!Sides : t # s => Same(t)
    BY <1>1, <1>2, <1>3, <2>1 DEF RtcTyped, Same
  <2>5. QED
    BY <2>2, <2>3, <2>4, RtcRow
<1>5. CASE d \notin listening[s]
  <2>1. loro' = loro /\ rtcModel' = rtcModel
    BY <1>5 DEF Rtc!Closes
  <2>2. RtcTyped'
    BY <1>1, <1>2, <1>3, <2>1 DEF RtcTyped
  <2>3. Served(s)'
    <3>1. attached[s] # d
      BY <1>3, <1>5 DEF Served, Rtc!Channels
    <3>2. attached[s] # 0 => dc'[s][attached[s]] = dc[s][attached[s]]
      BY <1>2, <1>3, <3>1 DEF Rtc!Channels
    <3>3. QED
      BY <1>1, <1>3, <2>1, <3>2 DEF Served
  <2>4. \A t \in Rtc!Sides : t # s => Same(t)
    BY <1>1, <1>2, <2>1 DEF Same
  <2>5. QED
    BY <2>2, <2>3, <2>4, RtcRow
<1>6. QED
  BY <1>4, <1>5

(* What making the Loro channel of d leaves, when there was none.          *)
Lone(d) == [Alone EXCEPT ![d] = "connected"]
(* It is the one channel then.                                             *)
LEMMA RtcLone ==
  ASSUME RtcLast \in Nat, NEW d \in Rtc!Channels
  PROVE Lone(d) \in Models /\ \A e \in Rtc!Channels : Lone(d)[e] # "none" <=> d = e
BY DEF Lone, Alone, Models

(* A data channel opens: when it is attached, its Loro channel is made.    *)
LEMMA RtcOpens ==
  ASSUME RtcLast \in Nat, RtcInv, NEW s \in Rtc!Sides, NEW d \in Rtc!Channels,
         Rtc!Opens(s, d)
  PROVE RtcInv'
<1>1. /\ dc' = [dc EXCEPT ![s][d] = "open"] /\ UNCHANGED <<started, attached, listening>>
      /\ dc[s][d] = "connecting"
  BY DEF Rtc!Opens
<1>2. /\ dc' \in [Rtc!Sides -> Ends] /\ dc'[s][d] = "open"
      /\ \A e \in Rtc!Channels : e # d => dc'[s][e] = dc[s][e]
      /\ \A t \in Rtc!Sides : t # s => dc'[t] = dc[t]
  BY <1>1, RtcEnd
<1>3. Served(s) /\ RtcTyped /\ attached[s] \in 0 .. RtcLast /\ loro[s] \in 0 .. RtcLast
  BY DEF RtcInv, RtcTyped
<1>4. CASE d \in listening[s]
  <2>1. attached[s] = d /\ started[s] /\ loro[s] = 0 /\ d # 0
    BY <1>1, <1>3, <1>4 DEF Served, Rtc!Channels
  <2>2. loro' = [loro EXCEPT ![s] = d] /\ rtcModel' = [rtcModel EXCEPT ![s][d] = "connected"]
    BY <1>4, <2>1 DEF Rtc!Opens, Rtc!CreateLoroChannel
  <2>3. rtcModel[s] \in Models /\ \A e \in Rtc!Channels : rtcModel[s][e] = "none"
    BY <1>3, <2>1 DEF Served, RtcTyped, Models, Rtc!Channels
  <2>4. rtcModel[s] = Alone
    BY <2>3 DEF Alone, Models
  <2>5. rtcModel' = [rtcModel EXCEPT ![s] = Lone(d)]
    BY <2>2, <2>4 DEF Lone
  <2>6. RtcTyped'
    <3>1. Lone(d) \in Models /\ d \in 0 .. RtcLast
      BY RtcLone DEF Rtc!Channels
    <3>2. loro' \in [Rtc!Sides -> 0 .. RtcLast] /\ rtcModel' \in [Rtc!Sides -> Models]
      BY <1>3, <2>2, <2>5, <3>1 DEF RtcTyped
    <3>3. QED
      BY <1>1, <1>2, <1>3, <3>2 DEF RtcTyped
  <2>7. Served(s)'
    <3>1. loro'[s] = d /\ rtcModel'[s] = Lone(d)
      BY <1>3, <2>2, <2>5 DEF RtcTyped
    <3>2. QED
      BY <1>1, <1>2, <1>3, <2>1, <3>1, RtcLone DEF Served
  <2>8. \A t \in Rtc!Sides : t # s => Same(t)
    BY <1>1, <1>2, <1>3, <2>2, <2>5 DEF RtcTyped, Same
  <2>9. QED
    BY <2>6, <2>7, <2>8, RtcRow
<1>5. CASE d \notin listening[s]
  <2>1. loro' = loro /\ rtcModel' = rtcModel
    BY <1>5 DEF Rtc!Opens
  <2>2. RtcTyped'
    BY <1>1, <1>2, <1>3, <2>1 DEF RtcTyped
  <2>3. Served(s)'
    <3>1. attached[s] # d
      BY <1>3, <1>5 DEF Served, Rtc!Channels
    <3>2. attached[s] # 0 => dc'[s][attached[s]] = dc[s][attached[s]]
      BY <1>2, <1>3, <3>1 DEF Rtc!Channels
    <3>3. QED
      BY <1>1, <1>3, <2>1, <3>2 DEF Served
  <2>4. \A t \in Rtc!Sides : t # s => Same(t)
    BY <1>1, <1>2, <2>1 DEF Same
  <2>5. QED
    BY <2>2, <2>3, <2>4, RtcRow
<1>6. QED
  BY <1>4, <1>5

(* Attaching takes the place of what was attached, open or not.            *)
LEMMA RtcAttach ==
  ASSUME RtcLast \in Nat, RtcInv, NEW s \in Rtc!Sides, NEW d \in Rtc!Channels,
         Rtc!Attach(s, d)
  PROVE RtcInv'
<1>1. /\ attached' = [attached EXCEPT ![s] = d] /\ listening' = [listening EXCEPT ![s] = {d}]
      /\ started' = started /\ dc' = dc /\ started[s]
  BY RtcRemoved DEF Rtc!Attach
<1>2. Served(s) /\ RtcTyped /\ d \in 0 .. RtcLast /\ d # 0
  BY DEF RtcInv, Rtc!Channels
<1>3. CASE dc[s][d] = "open"
  <2>1. loro' = [loro EXCEPT ![s] = d]
        /\ rtcModel' = [[rtcModel EXCEPT ![s] = Alone] EXCEPT ![s][d] = "connected"]
    BY <1>1, <1>3, RtcRemoved DEF Rtc!Attach, Rtc!OpenAtOnce, Rtc!CreateLoroChannel, Rtc!ModelAfterDetach
  <2>2. rtcModel' = [rtcModel EXCEPT ![s] = Lone(d)]
    BY <1>2, <2>1 DEF RtcTyped, Lone
  <2>3. RtcTyped'
    BY <1>1, <1>2, <2>1, <2>2, RtcLone DEF RtcTyped
  <2>4. Served(s)'
    <3>1. attached'[s] = d /\ listening'[s] = {d} /\ loro'[s] = d /\ rtcModel'[s] = Lone(d)
      BY <1>1, <1>2, <2>1, <2>2 DEF RtcTyped
    <3>2. \A e \in Rtc!Channels : rtcModel'[s][e] # "none" <=> loro'[s] = e
      BY <3>1, RtcLone
    <3>3. dc'[s][attached'[s]] = "open" /\ started'[s] /\ listening'[s] = {attached'[s]} \ {0}
      BY <1>1, <1>2, <1>3, <3>1
    <3>4. QED
      BY <3>1, <3>2, <3>3 DEF Served
  <2>5. \A t \in Rtc!Sides : t # s => Same(t)
    BY <1>1, <1>2, <2>1, <2>2 DEF RtcTyped, Same
  <2>6. QED
    BY <2>3, <2>4, <2>5, RtcRow
<1>4. CASE dc[s][d] # "open"
  <2>1. loro' = [loro EXCEPT ![s] = 0] /\ rtcModel' = [rtcModel EXCEPT ![s] = Alone]
    BY <1>4, RtcRemoved DEF Rtc!Attach, Rtc!OpenAtOnce, Rtc!ModelAfterDetach
  <2>3. RtcTyped'
    BY <1>1, <1>2, <2>1, RtcAlone DEF RtcTyped
  <2>4. Served(s)'
    <3>1. attached'[s] = d /\ listening'[s] = {d} /\ loro'[s] = 0 /\ rtcModel'[s] = Alone
      BY <1>1, <1>2, <2>1 DEF RtcTyped
    <3>2. QED
      BY <1>1, <1>2, <1>4, <3>1 DEF Served, Alone, Rtc!Channels
  <2>5. \A t \in Rtc!Sides : t # s => Same(t)
    BY <1>1, <1>2, <2>1 DEF RtcTyped, Same
  <2>6. QED
    BY <2>3, <2>4, <2>5, RtcRow
<1>5. QED
  BY <1>3, <1>4

(* Every step keeps the invariant.                                         *)
LEMMA RtcStep == ASSUME RtcLast \in Nat, RtcInv, [Rtc!Next]_(Rtc!vars) PROVE RtcInv'
<1>1. UNCHANGED Rtc!vars => RtcInv'
  BY DEF Rtc!vars, RtcInv, RtcTyped, Served
<1>2. QED
  BY <1>1, RtcStarts, RtcStop, RtcClean, RtcMessage, RtcCloses, RtcOpens, RtcAttach DEF Rtc!Next

(* An open data channel that is attached is served, and no other.          *)
LEMMA RtcSound == ASSUME RtcLast \in Nat PROVE Rtc!Spec => [](Rtc!OpenIsServed /\ Rtc!NoneOrphaned)
<1>1. ASSUME RtcInv PROVE Rtc!OpenIsServed /\ Rtc!NoneOrphaned
  BY <1>1 DEF RtcInv, RtcTyped, Served, Rtc!OpenIsServed, Rtc!NoneOrphaned, Rtc!Channels
<1>2. QED
  BY <1>1, RtcStart, RtcStep, PTL DEF Rtc!Spec

-----------------------------------------------------------------------------
(* The SSE client, and its POSTs.                                          *)

Sse == INSTANCE SseLink WITH
  Last <- SseLast, MaxReconnect <- SseReconnects, MaxStarts <- SseStarts,
  MaxAttempts <- SsePosts, MaxData <- 0, MaxFails <- SseFailures,
  client <- sseClient,
  stream <- sseStream, answer <- sseAnswer, conn <- sseConn,
  sChan <- sseSChan, ctl <- sseCtl, posts <- ssePosts, count <- sseCount,
  dropped <- sseDropped

(* The POSTs of a client without data: establish-requests.                 *)
Post == [nr : Nat, m : {0}, failed : 0 .. SsePosts - 1, waits : BOOLEAN, ctl : Nat]
(* The inductive invariant: there is one POST at most, it listens to the   *)
(* controller there is, and has failed less often than it may; those that  *)
(* were given up had used their attempts.                                  *)
PostsInv ==
  /\ ssePosts \subseteq Post /\ sseCtl \in Nat
  /\ sseCount \in [posts : Nat, ctls : Nat, data : Nat, fails : Nat]
  /\ \A p, q \in ssePosts : p = q
  /\ \A p \in ssePosts : p.ctl = sseCtl /\ sseCtl # 0
  /\ Sse!GivenUpForCause

(* At first there is no POST.                                              *)
LEMMA SseStart == ASSUME SsePosts \in Nat \ {0}, Sse!Init PROVE PostsInv
BY DEF Sse!Init, PostsInv, Sse!GivenUpForCause, Sse!None

(* What leaves POSTs and their counters alone keeps the invariant.         *)
LEMMA SseQuiet == ASSUME PostsInv, UNCHANGED <<sseCtl, ssePosts, sseCount, sseDropped>> PROVE PostsInv'
BY DEF PostsInv, Sse!GivenUpForCause

(* An attempt that fails is the last or leads to another.                  *)
LEMMA SseFailed ==
  ASSUME SsePosts \in Nat \ {0}, PostsInv, NEW p \in ssePosts, ~ p.waits, Sse!Failed(p),
         sseCount' \in [posts : Nat, ctls : Nat, data : Nat, fails : Nat]
  PROVE PostsInv'
<1>1. p \in Post /\ sseCtl # 0 /\ ssePosts = {p} /\ p.ctl = sseCtl /\ sseCtl \in Nat /\ p.failed \in 0 .. SsePosts - 1
  BY DEF PostsInv, Post
<1>2. CASE ssePosts' = ssePosts \ {p} /\ sseDropped' = Sse!Ends(p, "attempts") /\ sseCtl' = 0 /\ ~ Sse!TriesAgain(p)
  <2>1. p.failed + 1 = SsePosts
    BY <1>1, <1>2 DEF Sse!TriesAgain
  <2>2. ssePosts' = {}
    BY <1>1, <1>2
  <2>3. Sse!GivenUpForCause'
    BY <2>1, <1>2 DEF PostsInv, Sse!GivenUpForCause, Sse!Ends
  <2>4. QED
    BY <2>2, <2>3, <1>2 DEF PostsInv
<1>3. CASE /\ ssePosts' = (ssePosts \ {p}) \cup {[p EXCEPT !.failed = @ + 1, !.waits = TRUE, !.ctl = sseCtl]}
           /\ UNCHANGED <<sseDropped, sseCtl>> /\ Sse!TriesAgain(p)
  <2> DEFINE q == [p EXCEPT !.failed = @ + 1, !.waits = TRUE, !.ctl = sseCtl]
  <2>1. p.failed + 1 \in 0 .. SsePosts - 1
    BY <1>1, <1>3 DEF Sse!TriesAgain
  <2>2. q \in Post /\ q.ctl = sseCtl
    BY <1>1, <2>1 DEF Post
  <2> HIDE DEF q
  <2>3. ssePosts' = {q}
    BY <1>1, <1>3 DEF q
  <2>4. Sse!GivenUpForCause'
    BY <1>3 DEF PostsInv, Sse!GivenUpForCause
  <2>5. QED
    BY <2>2, <2>3, <2>4, <1>1, <1>3 DEF PostsInv
<1>4. QED
  BY <1>1, <1>2, <1>3 DEF Sse!Failed, Sse!None

(* A POST arrives, or the server refuses it.                               *)
LEMMA SseArrives == ASSUME SsePosts \in Nat \ {0}, PostsInv, NEW p \in ssePosts, Sse!PostArrives(p) PROVE PostsInv'
<1>1. ~ p.waits /\ ssePosts = {p} /\ sseCount' = sseCount /\ sseCount' \in [posts : Nat, ctls : Nat, data : Nat, fails : Nat]
  BY DEF PostsInv, Sse!PostArrives
<1>2. CASE Sse!Failed(p)
  BY <1>1, <1>2, SseFailed
<1>3. CASE ssePosts' = ssePosts \ {p} /\ sseDropped' = Sse!Ends(p, "arrived") /\ sseCtl' = 0
  <2>1. Sse!GivenUpForCause'
    BY <1>3 DEF PostsInv, Sse!GivenUpForCause, Sse!Ends
  <2>2. QED
    BY <1>1, <1>3, <2>1 DEF PostsInv
<1>4. QED
  BY <1>2, <1>3 DEF Sse!PostArrives, Sse!None

(* A POST fails on the way.                                                *)
LEMMA SseFails == ASSUME SsePosts \in Nat \ {0}, PostsInv, NEW p \in ssePosts, Sse!PostFails(p) PROVE PostsInv'
<1>1. ~ p.waits /\ Sse!Failed(p)
  BY DEF Sse!PostFails
<1>2. sseCount \in [posts : Nat, ctls : Nat, data : Nat, fails : Nat]
      /\ sseCount' = [sseCount EXCEPT !.fails = @ + 1]
  BY DEF PostsInv, Sse!PostFails
<1>3. sseCount' \in [posts : Nat, ctls : Nat, data : Nat, fails : Nat]
  BY <1>2
<1>4. QED
  BY <1>1, <1>3, SseFailed

(* A POST is tried again, with the controller that is there.               *)
LEMMA SseAgain == ASSUME SsePosts \in Nat \ {0}, PostsInv, NEW p \in ssePosts, Sse!PostAgain(p) PROVE PostsInv'
<1>1. p \in Post /\ sseCtl # 0 /\ ssePosts = {p} /\ p.ctl = sseCtl /\ sseCtl \in Nat
  BY DEF PostsInv
<1>2. Sse!Controller(sseCtl) = sseCtl
  BY <1>1 DEF Sse!Controller, Sse!None
<1> DEFINE q == [p EXCEPT !.waits = FALSE, !.ctl = sseCtl]
<1>3. q \in Post /\ q.ctl = sseCtl
  BY <1>1 DEF Post
<1> HIDE DEF q
<1>4. ssePosts' = {q} /\ sseCtl' = sseCtl /\ sseDropped' = sseDropped
  BY <1>1, <1>2 DEF Sse!PostAgain, q
<1>5. sseCount' \in [posts : Nat, ctls : Nat, data : Nat, fails : Nat]
  BY <1>1, <1>2 DEF Sse!PostAgain, PostsInv
<1>6. QED
  BY <1>1, <1>3, <1>4, <1>5 DEF PostsInv, Sse!GivenUpForCause

(* The open event of a stream aborts the POST of the one before, and sends *)
(* its own.                                                                *)
LEMMA SseOpens == ASSUME SsePosts \in Nat \ {0}, PostsInv, Sse!OpenEvent PROVE PostsInv'
<1> DEFINE aborted == {p \in ssePosts : sseCtl # 0 /\ p.ctl = sseCtl}
           q == [nr |-> sseCount.posts + 1, m |-> 0, failed |-> 0, waits |-> FALSE, ctl |-> sseCount.ctls + 1]
<1>1. aborted = ssePosts
  BY DEF PostsInv
<1>2. q \in Post /\ q.ctl = sseCount.ctls + 1 /\ q.ctl \in Nat /\ q.ctl # 0
  BY DEF PostsInv, Post
<1>3. /\ sseDropped' = sseDropped \cup {[nr |-> p.nr, how |-> "aborted", failed |-> p.failed] : p \in ssePosts}
      /\ ssePosts' = {q} /\ sseCtl' = sseCount.ctls + 1 /\ sseCount' = [sseCount EXCEPT !.posts = @ + 1, !.ctls = @ + 1]
  <2>1. /\ sseDropped' = sseDropped \cup {[nr |-> p.nr, how |-> "aborted", failed |-> p.failed] : p \in aborted}
        /\ ssePosts' = (ssePosts \ aborted) \cup {q} /\ sseCtl' = sseCount.ctls + 1
        /\ sseCount' = [sseCount EXCEPT !.posts = @ + 1, !.ctls = @ + 1]
    BY DEF Sse!OpenEvent, Sse!Establishes, Sse!Posted, Sse!Controller, Sse!None
  <2> HIDE DEF aborted, q
  <2>2. QED
    BY <2>1, <1>1
<1> HIDE DEF aborted, q
<1> DEFINE c1 == [sseCount EXCEPT !.posts = @ + 1]
<1>4. sseCount' \in [posts : Nat, ctls : Nat, data : Nat, fails : Nat]
  <2>1. c1 \in [posts : Nat, ctls : Nat, data : Nat, fails : Nat] /\ sseCount' = [c1 EXCEPT !.ctls = @ + 1]
    BY <1>3 DEF PostsInv
  <2> HIDE DEF c1
  <2>2. QED
    BY <2>1
<1>5. Sse!GivenUpForCause'
  BY <1>3 DEF PostsInv, Sse!GivenUpForCause
<1>6. QED
  BY <1>2, <1>3, <1>4, <1>5 DEF PostsInv

(* Every step keeps the invariant.                                         *)
LEMMA SseStep == ASSUME SsePosts \in Nat \ {0}, PostsInv, [Sse!Next]_(Sse!vars) PROVE PostsInv'
<1>1. /\ Sse!Start \/ Sse!Stop \/ Sse!ErrorEvent \/ Sse!Retry \/ Sse!Message
         \/ (\E k \in Sse!Streams : Sse!Accept(k) \/ Sse!CloseEvent(k)) \/ UNCHANGED Sse!vars
         => UNCHANGED <<sseCtl, ssePosts, sseCount, sseDropped>>
      /\ ~ Sse!ClientSends
  BY DEF PostsInv, Sse!Start, Sse!Stop, Sse!ErrorEvent, Sse!Retry, Sse!Message, Sse!Accept, Sse!CloseEvent, Sse!vars, Sse!ClientSends
<1>2. CASE UNCHANGED <<sseCtl, ssePosts, sseCount, sseDropped>>
  BY <1>2, SseQuiet
<1>3. CASE Sse!OpenEvent
  BY <1>3, SseOpens
<1>4. CASE \E p \in ssePosts : Sse!PostArrives(p)
  BY <1>4, SseArrives
<1>5. CASE \E p \in ssePosts : Sse!PostFails(p)
  BY <1>5, SseFails
<1>6. CASE \E p \in ssePosts : Sse!PostAgain(p)
  BY <1>6, SseAgain
<1>7. QED
  BY <1>1, <1>2, <1>3, <1>4, <1>5, <1>6, Zenon DEF Sse!Next

(* A POST is given up only after as many attempts as it is allowed.        *)
LEMMA SseSound == ASSUME SsePosts \in Nat \ {0} PROVE Sse!Spec => []Sse!GivenUpForCause
<1>1. PostsInv => Sse!GivenUpForCause
  BY DEF PostsInv
<1>2. QED
  BY <1>1, SseStart, SseStep, PTL DEF Sse!Spec

-----------------------------------------------------------------------------
(* The WebSocket client, which is started once.                            *)

Ws == INSTANCE WsLink WITH
  Last <- WsLast, MaxAttempts <- WsAttempts, MaxStarts <- 1,
  EarlyReady <- FALSE, client <- wsClient, starts <- wsStarts,
  socket <- wsSocket, cside <- wsCside, connects <- wsConnects,
  onclose <- wsOnclose, sside <- wsSside, connection <- wsConnection,
  serverChan <- wsServerChan, broken <- wsBroken, toClient <- wsToClient,
  toServer <- wsToServer

(* The last n sockets up to k all failed.                                  *)
FailedUpTo(k, n) == n <= k /\ \A s \in Ws!Sockets : k - n < s /\ s <= k => wsConnects[s] = "failed"

(* The state of the client's present socket, and the attempts that failed  *)
(* before it, while it connects,                                           *)
Connecting ==
  /\ wsSocket # 0 /\ ~ wsClient.timer /\ wsClient.attempt \in 1 .. WsAttempts
  /\ \/ wsConnects[wsSocket] = "waiting" /\ wsCside[wsSocket] = "connecting"
     \/ wsConnects[wsSocket] = "resolved" /\ wsCside[wsSocket] = "open"
     \/ wsConnects[wsSocket] = "rejected" /\ wsCside[wsSocket] = "closed"
  /\ FailedUpTo(wsSocket - 1, wsClient.attempt - 1)
(* while it is connected or ready,                                         *)
Connected ==
  /\ wsSocket \in wsOnclose /\ ~ wsClient.timer
  /\ wsConnects[wsSocket] = "connected" /\ wsCside[wsSocket] = "open"
(* when its socket has closed:                                             *)
Over ==
  wsSocket # 0 /\ wsConnects[wsSocket] \in {"failed", "connected"} /\ wsCside[wsSocket] = "closed"
(* it waits for its timer,                                                 *)
Reconnecting ==
  /\ Over /\ wsClient.timer /\ wsClient.attempt \in 1 .. WsAttempts
  /\ FailedUpTo(wsSocket, wsClient.attempt - 1)
(* or has used up its attempts.                                            *)
GaveUp ==
  Over /\ ~ wsClient.timer /\ FailedUpTo(wsSocket, WsAttempts)

(* A client that was started: all sockets before the present one are over, *)
(* none after it is opened.                                                *)
Running ==
  /\ wsStarts = 1 /\ ~ wsClient.threw
  /\ \A s \in Ws!Sockets : s < wsSocket => wsConnects[s] \in {"failed", "connected"} /\ wsCside[s] = "closed"
  /\ \A s \in Ws!Sockets : s > wsSocket <=> wsCside[s] = "unused"
  /\ \A s \in Ws!Sockets : s > wsSocket => wsConnects[s] = "none"
  /\ \A s \in wsOnclose : wsConnects[s] = "connected"
  /\ wsClient.status = "connecting" => Connecting
  /\ wsClient.status \in {"connected", "ready"} => Connected
  /\ wsClient.status = "reconnecting" => Reconnecting
  /\ wsClient.status = "disconnected" => GaveUp

(* A client before it is started.                                          *)
NotYet ==
  /\ wsSocket = 0 /\ ~ wsClient.threw /\ wsOnclose = {}
  /\ \A s \in Ws!Sockets : wsCside[s] = "unused" /\ wsConnects[s] = "none"

(* The values of what the client keeps.                                    *)
WsTyped ==
  /\ wsClient \in [status : Ws!Statuses, attempt : Nat,
                 channel : Ws!ChannelStates, timer : BOOLEAN, started : BOOLEAN,
                 disposed : BOOLEAN, threw : BOOLEAN]
  /\ wsStarts \in 0 .. 1 /\ wsSocket \in 0 .. WsLast
  /\ wsCside \in [Ws!Sockets -> Ws!SideStates]
  /\ wsConnects \in [Ws!Sockets -> {"none", "waiting", "resolved", "rejected", "connected", "failed"}]
  /\ wsOnclose \subseteq Ws!Sockets

(* The inductive invariant of the client: it has a channel exactly while   *)
(* it is ready, does nothing when it is stopped, and else is in one of the *)
(* states above.                                                           *)
WsInv ==
  /\ WsTyped
  /\ wsClient.channel # "none" <=> wsClient.status = "ready"
  /\ ~ wsClient.started => wsClient.status = "disconnected" /\ ~ wsClient.timer
  /\ wsStarts = 0 => NotYet /\ ~ wsClient.started
  /\ wsClient.started => Running

(* What the theorem assumes: there is a socket, and an attempt is allowed. *)
WsBounds == WsLast \in Nat \ {0} /\ WsAttempts \in Nat \ {0}

(* The records of the client.                                              *)
Clients == [status : Ws!Statuses, attempt : Nat, channel : Ws!ChannelStates, timer : BOOLEAN,
            started : BOOLEAN, disposed : BOOLEAN, threw : BOOLEAN]

(* At first nothing has started.                                           *)
LEMMA WsStarts == ASSUME WsBounds, Ws!Init PROVE WsInv
BY DEF WsBounds, Ws!Init, WsInv, WsTyped, NotYet, Ws!NotStarted, Ws!None, Ws!Sockets, Ws!Statuses, Ws!ChannelStates, Ws!SideStates

USE DEF Ws!Goes, Ws!ValidTransitions, Ws!None, Ws!Sockets,
    Ws!Statuses, Ws!ChannelStates, Ws!SideStates

(* What the server and the network do leaves the client alone.             *)
LEMMA WsQuiet ==
  ASSUME WsBounds, WsInv, UNCHANGED <<wsClient, wsStarts, wsSocket, wsCside, wsConnects, wsOnclose>>
  PROVE WsInv'
BY DEF WsInv, WsTyped, NotYet, Running, Connecting, Connected, Over, Reconnecting, GaveUp, FailedUpTo

(* The socket that connect() opens next is the one after the present.      *)
LEMMA WsUnused ==
  ASSUME WsBounds, WsInv, Ws!Unused # {}, wsClient.started \/ wsStarts = 0
  PROVE (CHOOSE u \in Ws!Unused : \A v \in Ws!Unused : u <= v) = wsSocket + 1 /\ wsSocket + 1 \in Ws!Sockets
<1>1. \A s \in Ws!Sockets : s > wsSocket <=> wsCside[s] = "unused"
  BY DEF WsInv, NotYet, Running
<1>2. Ws!Unused = wsSocket + 1 .. WsLast
  BY <1>1 DEF Ws!Unused, WsBounds, WsInv, WsTyped
<1>3. wsSocket + 1 \in Ws!Unused /\ \A v \in Ws!Unused : wsSocket + 1 <= v
  BY <1>2 DEF WsBounds, WsInv, WsTyped
<1>4. \A u \in Ws!Unused : (\A v \in Ws!Unused : u <= v) => u = wsSocket + 1
  BY <1>2, <1>3 DEF WsBounds, WsInv, WsTyped
<1>5. QED
  BY <1>3, <1>4, <1>2 DEF WsInv, WsTyped, WsBounds

(* What a new status changes of the client's record,                       *)
LEMMA WsTurned ==
  ASSUME NEW c \in Clients, NEW to \in Ws!Statuses
  PROVE  /\ [c EXCEPT !.status = to] \in Clients /\ [c EXCEPT !.status = to].status = to
         /\ [c EXCEPT !.status = to].attempt = c.attempt /\ [c EXCEPT !.status = to].timer = c.timer
         /\ [c EXCEPT !.status = to].started = c.started /\ [c EXCEPT !.status = to].threw = c.threw
         /\ [c EXCEPT !.status = to].channel = c.channel
BY DEF Clients

(* what a new attempt does,                                                *)
LEMMA WsCounted ==
  ASSUME NEW c \in Clients, NEW n \in Nat
  PROVE  /\ [c EXCEPT !.attempt = n] \in Clients /\ [c EXCEPT !.attempt = n].attempt = n
         /\ [c EXCEPT !.attempt = n].status = c.status /\ [c EXCEPT !.attempt = n].timer = c.timer
         /\ [c EXCEPT !.attempt = n].started = c.started /\ [c EXCEPT !.attempt = n].threw = c.threw
         /\ [c EXCEPT !.attempt = n].channel = c.channel
BY DEF Clients

(* and what setting the timer does.                                        *)
LEMMA WsTimed ==
  ASSUME NEW c \in Clients
  PROVE  /\ [c EXCEPT !.timer = TRUE] \in Clients /\ [c EXCEPT !.timer = TRUE].timer
         /\ [c EXCEPT !.timer = TRUE].status = c.status /\ [c EXCEPT !.timer = TRUE].attempt = c.attempt
         /\ [c EXCEPT !.timer = TRUE].started = c.started /\ [c EXCEPT !.timer = TRUE].threw = c.threw
         /\ [c EXCEPT !.timer = TRUE].channel = c.channel
BY DEF Clients

(* A client that runs, and opens its next socket, connects.                *)
LEMMA WsNext ==
  ASSUME WsBounds, WsInv, NEW n, n = wsSocket + 1, n \in Ws!Sockets, n \notin wsOnclose,
         wsStarts' = 1, wsSocket' = n, wsOnclose' = wsOnclose,
         wsCside' = [wsCside EXCEPT ![n] = "connecting"],
         wsConnects' = [wsConnects EXCEPT ![n] = "waiting"],
         wsClient.status # "ready",
         NEW a \in 1 .. WsAttempts, FailedUpTo(wsSocket, a - 1),
         wsClient' \in Clients, wsClient'.started, ~ wsClient'.timer, ~ wsClient'.threw, wsClient'.channel = "none",
         wsClient'.status = "connecting", wsClient'.attempt = a,
         \A s \in Ws!Sockets : s <= wsSocket => wsConnects[s] \in {"failed", "connected"} /\ wsCside[s] = "closed",
         \A s \in Ws!Sockets : s > wsSocket => wsConnects[s] = "none" /\ wsCside[s] = "unused",
         \A s \in wsOnclose : wsConnects[s] = "connected"
  PROVE  WsInv'
<1>1. WsTyped'
  <2>1. n \in 0 .. WsLast /\ 1 \in 0 .. 1
    BY DEF WsBounds
  <2>2. QED
    BY <2>1 DEF WsInv, WsTyped, Clients
<1>3. \A s \in Ws!Sockets : s <= wsSocket \/ s = n \/ s > n
  BY DEF WsInv, WsTyped
<1>4. /\ wsConnects'[n] = "waiting" /\ wsCside'[n] = "connecting"
      /\ \A s \in Ws!Sockets : s # n => wsConnects'[s] = wsConnects[s] /\ wsCside'[s] = wsCside[s]
  BY DEF WsInv, WsTyped
<1>5. wsSocket \in Nat /\ n # 0 /\ WsAttempts \in Nat
  BY DEF WsInv, WsTyped, WsBounds
<1>6. Connecting'
  <2>1. FailedUpTo(n - 1, a - 1)'
    <3>1. n - 1 = wsSocket
      BY <1>5
    <3>2. QED
      BY <3>1, <1>4, <1>5 DEF FailedUpTo
  <2>2. QED
    BY <2>1, <1>4, <1>5 DEF Connecting
<1>7. \A s \in wsOnclose' : wsConnects'[s] = "connected"
  BY <1>4 DEF WsInv, WsTyped
<1>8. Running'
  <2>1. \A s \in Ws!Sockets : (s < n => s <= wsSocket) /\ (s > n => s > wsSocket) /\ (s # n => s < n \/ s > n)
    BY <1>5
  <2>2. \A s \in Ws!Sockets : s < n => wsConnects'[s] \in {"failed", "connected"} /\ wsCside'[s] = "closed"
    BY <2>1, <1>4
  <2>3. \A s \in Ws!Sockets : s > n <=> wsCside'[s] = "unused"
    BY <2>1, <2>2, <1>4
  <2>4. \A s \in Ws!Sockets : s > n => wsConnects'[s] = "none"
    BY <2>1, <1>4
  <2>5. QED
    BY <2>2, <2>3, <2>4, <1>6, <1>7 DEF Running
<1>9. QED
  BY <1>1, <1>8 DEF WsInv

(* onStop keeps the invariant.                                             *)
LEMMA WsOnStop == ASSUME WsBounds, WsInv, Ws!OnStop PROVE WsInv'
<1>1. wsStarts' = wsStarts /\ wsStarts # 0
  BY DEF Ws!OnStop, WsInv
<1>4. WsTyped'
  <2>1. wsClient' \in Clients
    BY DEF Ws!OnStop, WsInv, WsTyped, Clients
  <2>2. wsCside' \in [Ws!Sockets -> Ws!SideStates]
    BY DEF Ws!OnStop, WsInv, WsTyped
  <2>3. wsSocket' \in 0 .. WsLast
    BY DEF Ws!OnStop, WsBounds
  <2>4. QED
    BY <2>1, <2>2, <2>3 DEF Ws!OnStop, WsInv, WsTyped, Clients
<1>2. wsClient'.channel = "none" /\ wsClient'.status = "disconnected" /\ ~ wsClient'.started /\ ~ wsClient'.timer
  BY DEF Ws!OnStop, WsInv, WsTyped
<1>3. QED
  BY <1>1, <1>2, <1>4 DEF WsInv

(* So does the open event, which resolves the promise of the present       *)
(* socket.                                                                 *)
LEMMA WsOpen == ASSUME WsBounds, WsInv, NEW s \in Ws!Sockets, Ws!OpenEvent(s) PROVE WsInv'
BY DEF Ws!OpenEvent, WsInv, WsTyped, NotYet, Running, Connecting, Connected, Over, Reconnecting, GaveUp, FailedUpTo, Ws!NoContinuation

(* A client that was stopped stays so.                                     *)
LEMMA WsStopped ==
  ASSUME WsBounds, WsInv, ~ wsClient.started, wsStarts' = wsStarts, wsStarts # 0, WsTyped',
         ~ wsClient'.started, wsClient'.status = "disconnected", ~ wsClient'.timer, wsClient'.channel = "none"
  PROVE  WsInv'
BY DEF WsInv

(* Only the present socket of a client that runs is not closed.            *)
LEMMA WsPresent ==
  ASSUME WsBounds, WsInv, wsClient.started, NEW s \in Ws!Sockets
  PROVE  /\ Running /\ wsStarts = 1 /\ wsSocket \in Nat
         /\ wsCside[s] \notin {"unused", "closed"} => s = wsSocket
         /\ wsConnects[s] \notin {"none", "failed", "connected"} => s = wsSocket
BY DEF WsInv, WsTyped, Running

(* Before the client starts no socket has been opened.                     *)
LEMMA WsFresh ==
  ASSUME WsBounds, WsInv, wsStarts = 0, NEW s \in Ws!Sockets
  PROVE  wsCside[s] = "unused" /\ wsConnects[s] = "none"
BY DEF WsInv, NotYet

(* connect() goes on after the open event: of a client that runs, it is    *)
(* the present socket that is connected.                                   *)
LEMMA WsGoesOn == ASSUME WsBounds, WsInv, NEW s \in Ws!Sockets, Ws!ConnectGoesOn(s) PROVE WsInv'
<1>1. wsStarts # 0 /\ wsStarts' = wsStarts /\ wsSocket' = wsSocket /\ wsCside' = wsCside /\ wsConnects' = [wsConnects EXCEPT ![s] = "connected"]
  BY WsFresh DEF Ws!ConnectGoesOn
<1>2. CASE ~ wsClient.started
  <2>1. wsClient' = [wsClient EXCEPT !.threw = TRUE] /\ wsOnclose' = wsOnclose
    <3>1. wsClient.status = "disconnected" /\ Ws!Goes(wsClient, "connected") = [wsClient EXCEPT !.threw = TRUE]
      BY <1>2 DEF WsInv
    <3>2. [wsClient EXCEPT !.threw = TRUE].status = "disconnected"
      BY <3>1 DEF WsInv, WsTyped
    <3>3. QED
      BY <3>1, <3>2 DEF Ws!ConnectGoesOn, Ws!Rescheduled
  <2>2. WsTyped'
    BY <1>1, <2>1 DEF WsInv, WsTyped
  <2>3. wsClient'.channel = "none" /\ wsClient'.status = "disconnected" /\ ~ wsClient'.started /\ ~ wsClient'.timer
    BY <1>2, <2>1 DEF WsInv, WsTyped
  <2>4. QED
    BY <1>1, <1>2, <2>3, <2>2, WsStopped
<1>3. CASE wsClient.started
  <2>1. s = wsSocket /\ Running /\ wsStarts = 1
    BY <1>3, WsPresent DEF Ws!ConnectGoesOn
  <2>2. wsClient.status = "connecting" /\ Connecting /\ wsCside[s] = "open"
    BY <2>1 DEF Ws!ConnectGoesOn, Running, Connecting, Connected, Over, Reconnecting, GaveUp, WsInv, WsTyped
  <2>3. wsClient' = [wsClient EXCEPT !.status = "connected"] /\ wsOnclose' = wsOnclose \cup {s}
    BY <2>1, <2>2 DEF Ws!ConnectGoesOn
  <2>4. WsTyped' /\ wsClient'.started /\ wsClient'.status = "connected" /\ ~ wsClient'.timer /\ ~ wsClient'.threw /\ wsClient'.channel = "none"
    BY <1>1, <2>1, <2>2, <2>3, <1>3 DEF WsInv, WsTyped, Running, Connecting
  <2>5. Running'
    BY <1>1, <2>1, <2>2, <2>3, <2>4 DEF Running, Connected, WsInv, WsTyped
  <2>6. QED
    BY <2>1, <1>1, <2>4, <2>5 DEF WsInv
<1>4. QED
  BY <1>2, <1>3

(* After an attempt that failed, or a connection that closed.              *)
LEMMA WsAgain ==
  ASSUME WsBounds, WsInv, wsClient.started, wsSocket # 0, wsStarts' = wsStarts, wsSocket' = wsSocket, wsOnclose' = wsOnclose,
         wsCside' = [wsCside EXCEPT ![wsSocket] = "closed"],
         NEW how \in {"failed", "connected"}, wsConnects' = [wsConnects EXCEPT ![wsSocket] = how],
         how = "connected" \/ wsSocket \notin wsOnclose,
         NEW n \in 0 .. WsAttempts, FailedUpTo(wsSocket, n)',
         wsClient' \in Clients, wsClient'.started, ~ wsClient'.threw, wsClient'.channel = "none",
         \/ n = WsAttempts /\ wsClient'.status = "disconnected" /\ ~ wsClient'.timer
         \/ n < WsAttempts /\ wsClient'.status = "reconnecting" /\ wsClient'.attempt = n + 1 /\ wsClient'.timer
  PROVE  WsInv'
<1>1. Running /\ wsStarts = 1
  BY DEF WsInv, Running
<1>2. WsTyped'
  BY DEF WsInv, WsTyped, Clients
<1>3. /\ wsSocket \in Ws!Sockets /\ wsConnects'[wsSocket] = how /\ wsCside'[wsSocket] = "closed"
      /\ \A s \in Ws!Sockets : s # wsSocket => wsConnects'[s] = wsConnects[s] /\ wsCside'[s] = wsCside[s]
  BY DEF WsInv, WsTyped, WsBounds
<1>4. Over'
  BY <1>3 DEF Over
<1>5. (wsClient'.status = "reconnecting" => Reconnecting') /\ (wsClient'.status = "disconnected" => GaveUp')
  <2>1. n < WsAttempts => n + 1 \in 1 .. WsAttempts /\ (n + 1) - 1 = n
    BY DEF WsBounds
  <2>2. QED
    BY <2>1, <1>4 DEF GaveUp, Reconnecting
<1>6. Running'
  <2>1. \A s \in Ws!Sockets : s < wsSocket => wsConnects'[s] \in {"failed", "connected"} /\ wsCside'[s] = "closed"
    BY <1>1, <1>3 DEF Running
  <2>2. \A s \in Ws!Sockets : (s > wsSocket <=> wsCside'[s] = "unused") /\ (s > wsSocket => wsConnects'[s] = "none")
    BY <1>1, <1>3 DEF Running
  <2>3. \A s \in wsOnclose' : wsConnects'[s] = "connected"
    BY <1>1, <1>3 DEF Running, WsInv, WsTyped
  <2>4. QED
    BY <1>1, <1>5, <2>1, <2>2, <2>3 DEF Running
<1>7. QED
  BY <1>1, <1>2, <1>6 DEF WsInv

(* connect() goes on after a failure: one more attempt in a row has        *)
(* failed.                                                                 *)
LEMMA WsFailed == ASSUME WsBounds, WsInv, NEW s \in Ws!Sockets, Ws!ConnectFailed(s) PROVE WsInv'
<1>1. /\ wsStarts # 0 /\ wsStarts' = wsStarts /\ wsSocket' = wsSocket /\ wsCside' = wsCside /\ wsOnclose' = wsOnclose
      /\ wsConnects' = [wsConnects EXCEPT ![s] = "failed"] /\ wsClient' = Ws!Rescheduled(wsClient)
  BY WsFresh DEF Ws!ConnectFailed
<1>2. CASE ~ wsClient.started
  <2>1. wsClient' = wsClient
    BY <1>1, <1>2 DEF WsInv, Ws!Rescheduled
  <2>2. WsTyped'
    BY <1>1, <2>1 DEF WsInv, WsTyped
  <2>3. QED
    BY <1>1, <1>2, <2>1, <2>2, WsStopped DEF WsInv
<1>3. CASE wsClient.started
  <2>1. s = wsSocket /\ Running /\ wsStarts = 1
    BY <1>3, WsPresent DEF Ws!ConnectFailed
  <2>2. /\ wsClient.status = "connecting" /\ Connecting /\ wsCside[s] = "closed" /\ wsClient.channel = "none"
        /\ wsConnects[s] = "rejected"
    BY <2>1 DEF Ws!ConnectFailed, Running, Connecting, Connected, Over, Reconnecting, GaveUp, WsInv, WsTyped
  <2>0. PICK n \in 1 .. WsAttempts : n = wsClient.attempt
    BY <2>2 DEF Connecting
  <2>3. /\ wsClient.attempt = n
        /\ n = WsAttempts => wsClient' = [wsClient EXCEPT !.status = "disconnected"]
        /\ n < WsAttempts => wsClient' = [wsClient EXCEPT !.status = "reconnecting", !.attempt = n + 1, !.timer = TRUE]
    BY <1>1, <1>3, <2>0, <2>2 DEF Ws!Rescheduled, Ws!AttemptsMade, Connecting, WsBounds
  <2>4. wsClient \in Clients /\ ~ wsClient.threw
    BY <2>1 DEF WsInv, WsTyped, Clients, Running
  <2>5. /\ wsClient' \in Clients /\ wsClient'.started /\ ~ wsClient'.threw /\ wsClient'.channel = "none"
        /\ n = WsAttempts => wsClient'.status = "disconnected" /\ wsClient'.timer = wsClient.timer
        /\ n < WsAttempts => wsClient'.status = "reconnecting" /\ wsClient'.attempt = n + 1 /\ wsClient'.timer
    <3>1. CASE n = WsAttempts
      BY <3>1, <1>3, <2>3, <2>4, <2>2 DEF Clients, WsBounds
    <3>2. CASE n < WsAttempts
      <4>1. n + 1 \in Nat /\ n # WsAttempts
        BY <3>2 DEF WsBounds
      <4>2. wsClient' = [[[wsClient EXCEPT !.status = "reconnecting"] EXCEPT !.attempt = n + 1] EXCEPT !.timer = TRUE]
        BY <3>2, <2>3
      <4> DEFINE d == [wsClient EXCEPT !.status = "reconnecting"]
                 e == [d EXCEPT !.attempt = n + 1]
      <4>3. d \in Clients /\ d.status = "reconnecting" /\ d.started /\ ~ d.threw /\ d.channel = "none"
        <5>1. d \in Clients /\ d.status = "reconnecting" /\ d.started = wsClient.started /\ d.threw = wsClient.threw /\ d.channel = wsClient.channel
          BY <2>4, WsTurned
        <5>2. QED
          BY <5>1, <1>3, <2>2, <2>4
      <4>4. wsClient' = [e EXCEPT !.timer = TRUE]
        BY <4>2
      <4> HIDE DEF d
      <4>5. e \in Clients /\ e.status = "reconnecting" /\ e.attempt = n + 1 /\ e.started /\ ~ e.threw /\ e.channel = "none"
        BY <4>1, <4>3, WsCounted
      <4> HIDE DEF e
      <4>6. QED
        BY <4>1, <4>4, <4>5, WsTimed
    <3>3. QED
      BY <3>1, <3>2 DEF WsBounds
  <2>6. FailedUpTo(wsSocket, n)'
    <3>1. FailedUpTo(wsSocket - 1, n - 1)
      BY <2>2, <2>0 DEF Connecting
    <3>2. wsSocket \in Nat /\ n \in Nat /\ wsConnects'[wsSocket] = "failed" /\ \A r \in Ws!Sockets : r # wsSocket => wsConnects'[r] = wsConnects[r]
      BY <2>1, <1>1, <2>3 DEF WsInv, WsTyped
    <3>3. \A r \in Ws!Sockets : wsSocket - n < r /\ r <= wsSocket => r = wsSocket \/ ((wsSocket - 1) - (n - 1) < r /\ r <= wsSocket - 1)
      BY <3>2
    <3>4. n <= wsSocket
      BY <3>1, <3>2 DEF FailedUpTo
    <3>5. QED
      BY <3>1, <3>2, <3>3, <3>4, <1>1 DEF FailedUpTo
  <2>7. wsCside' = [wsCside EXCEPT ![wsSocket] = "closed"] /\ wsSocket # 0 /\ ~ wsClient.timer /\ wsSocket \notin wsOnclose
    BY <1>1, <2>1, <2>2 DEF WsInv, WsTyped, Connecting, Running
  <2>8. n \in 0 .. WsAttempts /\ (n = WsAttempts \/ n < WsAttempts)
    BY <2>3 DEF WsBounds
  <2>9. QED
    BY <1>1, <1>3, <2>1, <2>5, <2>6, <2>7, <2>8, WsAgain
<1>4. QED
  BY <1>2, <1>3

(* A message: "ready" finds the client connected or ready already.         *)
LEMMA WsReceives == ASSUME WsBounds, WsInv, NEW s \in Ws!Sockets, Ws!ClientReceives(s) PROVE WsInv'
<1>1. /\ wsStarts # 0 /\ wsStarts' = wsStarts /\ wsSocket' = wsSocket /\ wsCside' = wsCside /\ wsOnclose' = wsOnclose
      /\ wsConnects' = wsConnects
  BY WsFresh DEF Ws!ClientReceives
<1>2. wsClient \in Clients
  BY DEF WsInv, WsTyped, Clients
<1>3. CASE ~ wsClient.started
  <2>1. wsClient.status = "disconnected" /\ wsClient.channel = "none" /\ ~ wsClient.timer
    BY <1>3 DEF WsInv
  <2>2. wsClient' \in Clients /\ wsClient'.channel = "none" /\ wsClient'.status = "disconnected" /\ ~ wsClient'.started /\ ~ wsClient'.timer
    <3>1. wsClient' = wsClient \/ wsClient' = [wsClient EXCEPT !.threw = TRUE]
      <4>1. Ws!BecomesReady(wsClient) = [wsClient EXCEPT !.threw = TRUE] /\ [wsClient EXCEPT !.threw = TRUE].threw
        BY <2>1, <1>2 DEF Ws!BecomesReady, Clients
      <4>2. QED
        BY <4>1, <2>1 DEF Ws!ClientReceives, Ws!ServerReady
    <3>2. QED
      BY <3>1, <1>2, <1>3, <2>1 DEF Clients
  <2>3. WsTyped'
    BY <1>1, <2>2 DEF WsInv, WsTyped, Clients
  <2>4. QED
    BY <1>1, <1>3, <2>2, <2>3, WsStopped
<1>4. CASE wsClient.started
  <2>1. s = wsSocket /\ Running /\ wsStarts = 1 /\ wsCside[s] = "open"
    BY <1>4, WsPresent DEF Ws!ClientReceives
  <2>2. wsConnects[s] # "resolved"
    BY <2>1 DEF Ws!ClientReceives, Ws!NoContinuation
  <2>3. wsClient.status \in {"connected", "ready"} /\ Connected /\ ~ wsClient.threw
    BY <2>1, <2>2, <1>2 DEF Running, Connecting, Connected, Over, Reconnecting, GaveUp, Clients
  <2>4. /\ wsClient' \in Clients /\ wsClient'.started /\ ~ wsClient'.threw /\ ~ wsClient'.timer
        /\ wsClient'.status \in {"connected", "ready"} /\ (wsClient'.channel # "none" <=> wsClient'.status = "ready")
    <3>1. ~ wsClient.timer /\ (wsClient.channel # "none" <=> wsClient.status = "ready")
      BY <2>3 DEF Connected, WsInv
    <3>2. CASE wsClient' = wsClient
      BY <3>1, <3>2, <1>2, <1>4, <2>3
    <3>3. CASE wsClient' = [wsClient EXCEPT !.channel = "established"] /\ wsClient.channel # "none"
      BY <3>1, <3>3, <1>2, <1>4, <2>3 DEF Clients
    <3>4. CASE wsClient' = [[wsClient EXCEPT !.status = "ready"] EXCEPT !.channel = "connected"] /\ wsClient.status = "connected"
      BY <3>1, <3>4, <1>2, <1>4, <2>3 DEF Clients
    <3>5. wsClient.status # "ready" => Ws!BecomesReady(wsClient) = [wsClient EXCEPT !.status = "ready"]
      BY <2>3, <1>2 DEF Ws!BecomesReady, Clients
    <3>6. wsClient.status # "ready" => ~ [wsClient EXCEPT !.status = "ready"].threw
      BY <2>3, <1>2 DEF Clients
    <3>7. QED
      BY <3>2, <3>3, <3>4, <3>5, <3>6, <2>3 DEF Ws!ClientReceives, Ws!ServerReady
  <2>5. WsTyped'
    BY <1>1, <2>4 DEF WsInv, WsTyped, Clients
  <2>6. Running'
    BY <1>1, <2>1, <2>3, <2>4 DEF Running, Connected
  <2>7. QED
    BY <1>1, <2>1, <2>4, <2>5, <2>6 DEF WsInv
<1>5. QED
  BY <1>3, <1>4

(* The close event: before the open event it fails the attempt, of a       *)
(* connection it begins the first attempt of a new row.                    *)
LEMMA WsClose == ASSUME WsBounds, WsInv, NEW s \in Ws!Sockets, Ws!CloseEvent(s) PROVE WsInv'
<1>1. /\ wsStarts # 0 /\ wsStarts' = wsStarts /\ wsSocket' = wsSocket /\ wsOnclose' = wsOnclose
      /\ wsCside' = [wsCside EXCEPT ![s] = "closed"]
      /\ wsConnects' = IF wsConnects[s] = "waiting" THEN [wsConnects EXCEPT ![s] = "rejected"] ELSE wsConnects
  BY WsFresh DEF Ws!CloseEvent
<1>2. wsClient \in Clients
  BY DEF WsInv, WsTyped, Clients
<1>3. CASE ~ wsClient.started
  <2>1. wsClient.status = "disconnected" /\ wsClient.channel = "none" /\ ~ wsClient.timer
    BY <1>3 DEF WsInv
  <2>2. wsClient' = wsClient
    <3>1. [wsClient EXCEPT !.channel = "none"].status = "disconnected" /\ [wsClient EXCEPT !.channel = "none"] = wsClient
      BY <2>1, <1>2 DEF Clients
    <3>2. QED
      BY <3>1 DEF Ws!CloseEvent, Ws!Closed, Ws!Rescheduled
  <2>3. WsTyped'
    BY <1>1, <2>2 DEF WsInv, WsTyped
  <2>4. QED
    BY <1>1, <1>3, <2>1, <2>2, <2>3, WsStopped
<1>4. CASE wsClient.started
  <2>1. s = wsSocket /\ Running /\ wsStarts = 1 /\ wsConnects[s] # "resolved"
    BY <1>4, WsPresent DEF Ws!CloseEvent, Ws!NoContinuation
  <2>2. CASE wsClient.status = "connecting"
    <3>1. Connecting /\ wsConnects[s] = "waiting" /\ s \notin wsOnclose
      BY <2>1, <2>2 DEF Running, Connecting, Ws!CloseEvent
    <3>2. wsClient' = wsClient /\ wsConnects' = [wsConnects EXCEPT ![s] = "rejected"]
      BY <3>1, <1>1 DEF Ws!CloseEvent
    <3>3. WsTyped'
      BY <1>1, <3>2 DEF WsInv, WsTyped
    <3>4. wsConnects'[s] = "rejected" /\ wsCside'[s] = "closed" /\ \A r \in Ws!Sockets : r # s => wsConnects'[r] = wsConnects[r] /\ wsCside'[r] = wsCside[r]
      BY <1>1, <3>2 DEF WsInv, WsTyped
    <3>5. Connecting'
      <4>1. \A r \in Ws!Sockets : r <= wsSocket - 1 => r # wsSocket
        BY DEF WsInv, WsTyped
      <4>2. FailedUpTo(wsSocket - 1, wsClient.attempt - 1)'
        BY <1>1, <2>1, <3>1, <3>2, <3>4, <4>1 DEF Connecting, FailedUpTo
      <4>3. QED
        BY <1>1, <2>1, <3>1, <3>2, <3>4, <4>2 DEF Connecting
    <3>6. Running'
      <4>1. \A r \in Ws!Sockets : r < wsSocket \/ r = wsSocket \/ r > wsSocket
        BY DEF WsInv, WsTyped
      <4>2. \A r \in wsOnclose : r # s
        BY <3>1
      <4>3. QED
        BY <1>1, <2>1, <2>2, <3>1, <3>2, <3>4, <3>5, <4>1, <4>2 DEF Running, WsInv, WsTyped
    <3>7. QED
      BY <1>1, <2>1, <2>2, <3>2, <3>3, <3>6 DEF WsInv
  <2>3. CASE wsClient.status \in {"connected", "ready"}
    <3>1. Connected /\ ~ wsClient.threw
      BY <2>1, <2>3 DEF Running
    <3>2. wsClient' = Ws!Closed(wsClient) /\ wsConnects' = wsConnects
      BY <2>1, <3>1, <1>1 DEF Connected, Ws!CloseEvent
    <3> DEFINE c == [wsClient EXCEPT !.channel = "none"]
    <3>3. c \in Clients /\ c.status = wsClient.status /\ c.started /\ ~ c.threw /\ c.channel = "none"
      BY <1>2, <1>4, <3>1 DEF Clients
    <3>4. wsClient' = [c EXCEPT !.status = "reconnecting", !.attempt = 0 + 1, !.timer = TRUE]
      <4> HIDE DEF c
      <4>1. Ws!AttemptsMade(c) = 0
        BY <2>3, <3>3 DEF Ws!AttemptsMade
      <4>2. ~ (0 >= WsAttempts)
        BY DEF WsBounds
      <4>3. Ws!Rescheduled(c) = [c EXCEPT !.status = "reconnecting", !.attempt = 0 + 1, !.timer = TRUE]
        BY <2>3, <3>3, <4>1, <4>2 DEF Ws!Rescheduled
      <4>4. QED
        BY <4>3, <3>2 DEF Ws!Closed, c
    <3> HIDE DEF c
    <3>5. /\ wsClient' \in Clients /\ wsClient'.started /\ ~ wsClient'.threw /\ wsClient'.channel = "none"
          /\ wsClient'.status = "reconnecting" /\ wsClient'.attempt = 0 + 1 /\ wsClient'.timer
      <4> DEFINE d == [c EXCEPT !.status = "reconnecting"]
                 e == [d EXCEPT !.attempt = 0 + 1]
      <4>1. d \in Clients /\ d.status = "reconnecting" /\ d.started /\ ~ d.threw /\ d.channel = "none"
        <5>1. d \in Clients /\ d.status = "reconnecting" /\ d.started = c.started /\ d.threw = c.threw /\ d.channel = c.channel
          BY <3>3, WsTurned
        <5>2. QED
          BY <5>1, <3>3
      <4>2. wsClient' = [e EXCEPT !.timer = TRUE]
        BY <3>4
      <4> HIDE DEF d
      <4>3. e \in Clients /\ e.status = "reconnecting" /\ e.attempt = 0 + 1 /\ e.started /\ ~ e.threw /\ e.channel = "none"
        BY <4>1, WsCounted
      <4> HIDE DEF e
      <4>4. QED
        BY <4>2, <4>3, WsTimed
    <3>6. wsSocket # 0 /\ wsConnects' = [wsConnects EXCEPT ![wsSocket] = "connected"]
      BY <3>1, <3>2, <2>1 DEF Connected, WsInv, WsTyped
    <3>7. FailedUpTo(wsSocket, 0)' /\ 0 \in 0 .. WsAttempts /\ 0 < WsAttempts
      BY <1>1 DEF FailedUpTo, WsInv, WsTyped, WsBounds
    <3>8. QED
      BY <1>1, <1>4, <2>1, <3>5, <3>6, <3>7, WsAgain
  <2>4. CASE wsClient.status \in {"reconnecting", "disconnected"}
    BY <2>1, <2>4 DEF Running, Reconnecting, GaveUp, Over, Ws!CloseEvent
  <2>5. QED
    BY <2>2, <2>3, <2>4, <1>2 DEF Clients
<1>5. QED
  BY <1>3, <1>4

(* onStart opens the first socket.                                         *)
LEMMA WsStart == ASSUME WsBounds, WsInv, Ws!Start PROVE WsInv'
<1>1. ~ wsClient.started /\ wsStarts = 0 /\ wsClient.status = "disconnected" /\ NotYet /\ wsClient.channel = "none" /\ ~ wsClient.timer
  BY DEF Ws!Start, WsInv, WsTyped
<1>2. wsClient \in Clients
  BY DEF WsInv, WsTyped, Clients
<1> DEFINE c == [wsClient EXCEPT !.started = TRUE]
<1>3. c \in Clients /\ c.status = "disconnected"
  BY <1>1, <1>2 DEF Clients
<1>4. Ws!Unused # {} /\ Ws!Connects(c)
  <2> HIDE DEF c
  <2>1. Ws!Connects(c)
    BY DEF Ws!Start, c
  <2>2. QED
    BY <2>1, <1>3 DEF Ws!Connects
<1>5. wsSocket + 1 \in Ws!Sockets /\ (CHOOSE u \in Ws!Unused : \A v \in Ws!Unused : u <= v) = wsSocket + 1
  BY <1>1, <1>4, WsUnused
<1>6. /\ wsSocket' = wsSocket + 1
      /\ wsCside' = [wsCside EXCEPT ![wsSocket + 1] = "connecting"]
      /\ wsConnects' = [wsConnects EXCEPT ![wsSocket + 1] = "waiting"]
      /\ wsClient' = Ws!Connecting(c)
  <2> HIDE DEF c
  <2>1. QED
    BY <1>3, <1>4, <1>5 DEF Ws!Connects
<1>7. /\ wsClient' \in Clients /\ wsClient'.started /\ ~ wsClient'.timer /\ ~ wsClient'.threw /\ wsClient'.channel = "none"
      /\ wsClient'.status = "connecting" /\ wsClient'.attempt = 1
  <2>1. c.started /\ ~ c.timer /\ ~ c.threw /\ c.channel = "none"
    BY <1>1, <1>2 DEF Clients, NotYet
  <2> HIDE DEF c
  <2>2. Ws!Connecting(c) = [[c EXCEPT !.status = "connecting"] EXCEPT !.attempt = 1]
    BY <1>3 DEF Ws!Connecting
  <2> DEFINE d == [c EXCEPT !.status = "connecting"]
  <2>3. d \in Clients /\ d.status = "connecting" /\ d.timer = c.timer /\ d.started = c.started /\ d.threw = c.threw /\ d.channel = c.channel
    BY <1>3, WsTurned
  <2> HIDE DEF d
  <2>4. wsClient' = [d EXCEPT !.attempt = 1]
    BY <2>2, <1>6 DEF d
  <2>5. QED
    BY <2>1, <2>3, <2>4, WsCounted
<1>8. wsStarts' = 1 /\ wsOnclose' = wsOnclose
  BY <1>1 DEF Ws!Start
<1>9. /\ 1 \in 1 .. WsAttempts /\ FailedUpTo(wsSocket, 1 - 1) /\ ~ wsClient.threw
      /\ wsSocket + 1 \notin wsOnclose
      /\ \A s \in Ws!Sockets : s <= wsSocket => wsConnects[s] \in {"failed", "connected"} /\ wsCside[s] = "closed"
      /\ \A s \in Ws!Sockets : s > wsSocket => wsConnects[s] = "none" /\ wsCside[s] = "unused"
      /\ \A s \in wsOnclose : wsConnects[s] = "connected"
  BY <1>1 DEF NotYet, FailedUpTo, WsBounds
<1>10. QED
  BY <1>1, <1>5, <1>6, <1>7, <1>8, <1>9, WsNext

(* The reconnect timer opens the next.                                     *)
LEMMA WsTimer == ASSUME WsBounds, WsInv, Ws!ReconnectTimer PROVE WsInv'
<1>1. wsClient.started /\ wsClient.status = "reconnecting" /\ Running /\ Reconnecting /\ wsClient.channel = "none" /\ wsStarts = 1
  BY DEF Ws!ReconnectTimer, WsInv, WsTyped, Running, Connecting, Connected, GaveUp
<1>2. wsClient \in Clients
  BY DEF WsInv, WsTyped, Clients
<1> DEFINE c == [wsClient EXCEPT !.timer = FALSE]
<1>3. c \in Clients /\ c.status = "reconnecting" /\ c.attempt = wsClient.attempt
  BY <1>1, <1>2 DEF Clients
<1>4. Ws!Unused # {} /\ Ws!Connects(c)
  <2> HIDE DEF c
  <2>1. Ws!Connects(c)
    BY DEF Ws!ReconnectTimer, c
  <2>2. QED
    BY <2>1, <1>3 DEF Ws!Connects
<1>5. wsSocket + 1 \in Ws!Sockets /\ (CHOOSE u \in Ws!Unused : \A v \in Ws!Unused : u <= v) = wsSocket + 1
  BY <1>1, <1>4, WsUnused
<1>6. /\ wsSocket' = wsSocket + 1
      /\ wsCside' = [wsCside EXCEPT ![wsSocket + 1] = "connecting"]
      /\ wsConnects' = [wsConnects EXCEPT ![wsSocket + 1] = "waiting"]
      /\ wsClient' = Ws!Connecting(c)
  <2> HIDE DEF c
  <2>1. QED
    BY <1>3, <1>4, <1>5 DEF Ws!Connects
<1>7. PICK a \in 1 .. WsAttempts : a = wsClient.attempt
  BY <1>1 DEF Reconnecting
<1>8. /\ wsClient' \in Clients /\ wsClient'.started /\ ~ wsClient'.timer /\ ~ wsClient'.threw /\ wsClient'.channel = "none"
      /\ wsClient'.status = "connecting" /\ wsClient'.attempt = a
  <2>1. c.started /\ ~ c.timer /\ ~ c.threw /\ c.channel = "none"
    BY <1>1, <1>2 DEF Clients, Running
  <2> HIDE DEF c
  <2>2. Ws!Connecting(c) = [[c EXCEPT !.status = "connecting"] EXCEPT !.attempt = a]
    BY <1>3, <1>7 DEF Ws!Connecting
  <2>3. a \in Nat
    BY <1>7 DEF WsBounds
  <2> DEFINE d == [c EXCEPT !.status = "connecting"]
  <2>4. d \in Clients /\ d.status = "connecting" /\ d.timer = c.timer /\ d.started = c.started /\ d.threw = c.threw /\ d.channel = c.channel
    BY <1>3, WsTurned
  <2> HIDE DEF d
  <2>5. wsClient' = [d EXCEPT !.attempt = a]
    BY <2>2, <1>6 DEF d
  <2>6. QED
    BY <2>1, <2>3, <2>4, <2>5, WsCounted
<1>9. wsStarts' = 1 /\ wsOnclose' = wsOnclose
  BY <1>1 DEF Ws!ReconnectTimer
<1>10. FailedUpTo(wsSocket, a - 1) /\ ~ wsClient.threw
  BY <1>1, <1>7 DEF Reconnecting, Running
<1>11. /\ \A s \in Ws!Sockets : s <= wsSocket => wsConnects[s] \in {"failed", "connected"} /\ wsCside[s] = "closed"
       /\ \A s \in Ws!Sockets : s > wsSocket => wsConnects[s] = "none" /\ wsCside[s] = "unused"
       /\ \A s \in wsOnclose : wsConnects[s] = "connected"
  BY <1>1 DEF Reconnecting, Running, Over, WsInv, WsTyped
<1>12. wsSocket + 1 \notin wsOnclose
  BY <1>5, <1>11 DEF WsInv, WsTyped
<1>13. QED
  BY <1>1, <1>5, <1>6, <1>8, <1>9, <1>10, <1>11, <1>12, WsNext

(* Every step keeps the invariant.                                         *)
LEMMA WsStep == ASSUME WsBounds, WsInv, [Ws!Next]_(Ws!vars) PROVE WsInv'
<1>1. (\E s \in Ws!Sockets : Ws!ServerEvent(s) \/ Ws!Break(s)) \/ UNCHANGED Ws!vars
       => UNCHANGED <<wsClient, wsStarts, wsSocket, wsCside, wsConnects, wsOnclose>>
  BY DEF Ws!ServerEvent, Ws!Accept, Ws!ServerReceives, Ws!ServerCloseEvent, Ws!Break, Ws!vars, Ws!clientVars
<1>2. QED
  BY <1>1, WsQuiet, WsStart, WsTimer, WsOnStop, WsOpen, WsGoesOn, WsFailed, WsReceives, WsClose DEF Ws!Next, Ws!ClientEvent

(* So it holds in every state.                                             *)
LEMMA WsHolds == ASSUME WsBounds PROVE Ws!Spec => []WsInv
BY WsStarts, WsStep, PTL DEF Ws!Spec

(* A client that gave up has as many failed sockets in a row as attempts.  *)
LEMMA WsGivesUp == ASSUME WsBounds, WsInv PROVE Ws!GivesUpLate
<1>1. SUFFICES ASSUME wsClient.started, wsClient.status = "disconnected"
               PROVE  \E s \in Ws!Sockets \ Ws!Unused :
                        /\ \A r \in Ws!Sockets \ Ws!Unused : r > s => wsConnects[r] = "failed"
                        /\ Ws!Cardinality({r \in Ws!Sockets \ Ws!Unused : r >= s /\ wsConnects[r] = "failed"}) >= WsAttempts
  BY Zenon DEF Ws!GivesUpLate
<1>2. Running /\ GaveUp
  BY <1>1 DEF WsInv, Running
<1> DEFINE s == wsSocket - WsAttempts + 1
           row == {r \in Ws!Sockets \ Ws!Unused : r >= s /\ wsConnects[r] = "failed"}
<1>3. wsSocket \in Nat /\ wsSocket <= WsLast /\ WsLast \in Nat /\ WsAttempts \in Nat /\ WsAttempts > 0 /\ WsAttempts <= wsSocket
  BY <1>2 DEF GaveUp, FailedUpTo, WsInv, WsTyped, WsBounds
<1>4. \A r \in s .. wsSocket : r \in Ws!Sockets /\ wsSocket - WsAttempts < r /\ r <= wsSocket
  BY <1>3
<1>5. Ws!Sockets \ Ws!Unused = 1 .. wsSocket
  BY <1>2, <1>3 DEF Running, Ws!Unused
<1>6. \A r \in s .. wsSocket : wsConnects[r] = "failed"
  BY <1>2, <1>4 DEF GaveUp, FailedUpTo
<1>7. row = s .. wsSocket
  BY <1>3, <1>4, <1>5, <1>6
<1>8. Ws!Cardinality(s .. wsSocket) = WsAttempts
  <2>1. s \in Int /\ wsSocket \in Int /\ ~ (s > wsSocket) /\ wsSocket - s + 1 = WsAttempts
    BY <1>3
  <2> HIDE DEF s
  <2>2. Cardinality(s .. wsSocket) = WsAttempts
    BY <2>1, FS_Interval
  <2>3. QED
    BY <2>2 DEF Cardinality, Ws!Cardinality
<1>9. s \in 1 .. wsSocket
  BY <1>3
<1>10. \A r \in 1 .. wsSocket : r > s => r \in s .. wsSocket
  BY <1>3, <1>9
<1>11. WsAttempts >= WsAttempts
  BY <1>3
<1> HIDE DEF s
<1>12. QED
  BY <1>5, <1>6, <1>7, <1>8, <1>9, <1>10, <1>11

(* The state machine is asked for no invalid transition, the client gives  *)
(* up only after its attempts, and has a channel exactly while it is       *)
(* ready.                                                                  *)
LEMMA WsSound ==
  ASSUME WsBounds PROVE Ws!Spec => [](Ws!NeverThrows /\ Ws!GivesUpLate /\ Ws!ChannelWhileReady)
<1>1. ASSUME WsInv PROVE Ws!NeverThrows /\ Ws!GivesUpLate /\ Ws!ChannelWhileReady
  <2>1. Ws!NeverThrows
    BY <1>1 DEF WsInv, Running, Ws!NeverThrows
  <2>2. Ws!ChannelWhileReady
    BY <1>1 DEF WsInv, Running, Connected, Ws!ChannelWhileReady
  <2>3. QED
    BY <1>1, <2>1, <2>2, WsGivesUp
<1>2. QED
  BY <1>1, WsHolds, PTL

HIDE DEF Ws!Goes, Ws!ValidTransitions, Ws!None, Ws!Sockets,
    Ws!Statuses, Ws!ChannelStates, Ws!SideStates

-----------------------------------------------------------------------------
(* The client of long polls, which is started once, and its server.        *)

Poll == INSTANCE PollLink WITH
  MaxPolls <- PollLast, MaxLoops <- 1, MaxData <- PollData,
  MaxAttempts <- PollPosts, MaxCuts <- PollCuts, CutFirst <- TRUE,
  client <- pollClient, loop <- pollLoop, polls <- pollPolls,
  conn <- pollConn, sChan <- pollSChan, posts <- pollPosts,
  sent <- pollSent, got <- pollGot, cuts <- pollCuts

(* Lists of messages.                                                      *)
Lists == Seq(0 .. PollData)
(* Data is in the order of its numbers, and what s holds is before t.      *)
Ascending(s) == \A i, j \in DOMAIN s : i < j /\ s[i] # 0 /\ s[j] # 0 => s[i] < s[j]
Before(s, t) ==
  \A i \in DOMAIN s, j \in DOMAIN t : s[i] # 0 /\ t[j] # 0 => s[i] < t[j]
(* Nothing in s is above n, the last number that was issued.               *)
Issued(s, n) == \A i \in DOMAIN s : s[i] <= n

(* The values of what both sides keep.                                     *)
PollClients == [stop : BOOLEAN, polling : BOOLEAN, starts : 0 .. 1,
                abort : 0 .. PollLast, chan : Poll!ChanStates]
PollRecords == [live : BOOLEAN, at : {"none", "sent", "held", "answered"},
                messages : Lists, new : BOOLEAN]
PollConns == [there : BOOLEAN, queue : Lists, resolver : 0 .. PollLast,
              timers : SUBSET Poll!Polls, timeout : 0 .. PollLast]
PollTyped ==
  /\ pollClient \in PollClients
  /\ pollLoop \in [{1} -> [at : {"off", "sleep", "poll"}, poll : 0 .. PollLast]]
  /\ pollPolls \in [Poll!Polls -> PollRecords]
  /\ pollConn \in PollConns
  /\ pollSChan \in Poll!ChanStates
  /\ pollSent \in [posts : Nat, client : 0 .. PollData, server : 0 .. PollData]
  /\ pollGot \in [client : Lists, server : Lists]
  /\ pollPosts \subseteq [nr : Nat, m : 0 .. PollData, failed : Nat]
  /\ pollCuts \in Nat

(* The loop awaits the one poll that is live, once it was started.         *)
OneAwaited ==
  /\ \A k \in Poll!Polls :
       /\ pollPolls[k].live <=> pollLoop[1].at = "poll" /\ pollLoop[1].poll = k
       /\ pollPolls[k].live => pollPolls[k].at # "none"
  /\ pollLoop[1].at = "poll" => pollLoop[1].poll \in Poll!Polls
  /\ pollClient.starts = 0 => pollLoop[1].at = "off"
(* A timer is that of a poll held, and so is the resolver, for which the   *)
(* queue has nothing.                                                      *)
HeldPolls ==
  /\ \A k \in pollConn.timers : pollPolls[k].at = "held"
  /\ pollConn.resolver # 0 =>
       /\ pollConn.resolver \in pollConn.timers /\ pollConn.timeout = pollConn.resolver
       /\ pollConn.queue = <<>>

(* The response to poll k, which the client will receive.                  *)
Coming(k) == pollPolls[k].live /\ pollPolls[k].at = "answered"
(* What was received, is coming and is queued is in order, each before the *)
(* next.                                                                   *)
PollOrder ==
  LET got == pollGot.client
      queue == pollConn.queue
  IN  /\ Ascending(got) /\ Ascending(queue) /\ Before(got, queue)
      /\ Issued(got, pollSent.server) /\ Issued(queue, pollSent.server)
      /\ \A k \in Poll!Polls : Coming(k) =>
           LET ms == pollPolls[k].messages
           IN  Ascending(ms) /\ Before(got, ms) /\ Before(ms, queue) /\ Issued(ms, pollSent.server)

(* The part of the invariant that holds whatever polls are cut.            *)
PollsInv == PollTyped /\ OneAwaited /\ HeldPolls /\ PollOrder

(* What the theorem assumes.                                               *)
PollBounds == PollLast \in Nat /\ PollData \in Nat

(* The messages of a list are numbers.                                     *)
LEMMA Listed ==
  ASSUME NEW s \in Lists
  PROVE  /\ Len(s) \in Nat /\ DOMAIN s = 1 .. Len(s) /\ \A i \in DOMAIN s : s[i] \in 0 .. PollData /\ s[i] \in Nat
<1>1. Len(s) \in Nat /\ DOMAIN s = 1 .. Len(s)
  BY DEF Lists
<1>2. ASSUME NEW i \in 1 .. Len(s) PROVE s[i] \in 0 .. PollData
  BY ElementOfSeq DEF Lists
<1>3. \A n \in 0 .. PollData : n \in Nat
  OBVIOUS
<1>4. QED
  BY <1>1, <1>2, <1>3

(* What is issued stays issued.                                            *)
LEMMA StaysIssued ==
  ASSUME NEW s \in Lists, NEW m \in Nat, NEW n \in Nat, m <= n, Issued(s, m) PROVE Issued(s, n)
BY Listed DEF Issued

(* A message that is new, or no data, goes behind a list.                  *)
LEMMA ListAppended ==
  ASSUME NEW s \in Lists, NEW n \in Nat, NEW m \in 0 .. PollData, m # 0 => n < m,
         Ascending(s), Issued(s, n)
  PROVE  /\ Append(s, m) \in Lists /\ Ascending(Append(s, m))
         /\ \A l \in Nat : n <= l /\ m <= l => Issued(Append(s, m), l)
         /\ \A t \in Lists : Issued(t, n) /\ Before(t, s) => Before(t, Append(s, m))
<1> DEFINE a == Append(s, m)
<1>1. a \in Lists /\ Len(a) = Len(s) + 1
  BY DEF Lists
<1>2. \A i \in DOMAIN a :
        \/ i \in DOMAIN s /\ a[i] = s[i] /\ i < Len(s) + 1
        \/ i = Len(s) + 1 /\ a[i] = m
  <2>1. Len(s) \in Nat /\ DOMAIN s = 1 .. Len(s) /\ DOMAIN a = 1 .. Len(s) + 1 /\ s \in Seq(0 .. PollData)
    BY <1>1, Listed DEF Lists
  <2>2. Len(s) \in Nat /\ \A i \in 1 .. Len(s) : a[i] = s[i]
    BY <2>1, AppendProperties
  <2>3. a[Len(s) + 1] = m
    BY <2>1, AppendProperties
  <2>4. ASSUME NEW i \in 1 .. Len(s) + 1
        PROVE  \/ i \in 1 .. Len(s) /\ a[i] = s[i] /\ i < Len(s) + 1
               \/ i = Len(s) + 1 /\ a[i] = m
    BY <2>1, <2>2, <2>3
  <2>5. QED
    BY <2>1, <2>4
<1>3. Ascending(a)
  <2> SUFFICES ASSUME NEW i \in DOMAIN a, NEW j \in DOMAIN a, i < j, a[i] # 0, a[j] # 0
               PROVE  a[i] < a[j]
    BY DEF Ascending
  <2>1. i \in DOMAIN s /\ a[i] = s[i] /\ s[i] \in Nat /\ s[i] <= n
    BY <1>1, <1>2, Listed DEF Issued
  <2>2. CASE j \in DOMAIN s /\ a[j] = s[j]
    BY <2>1, <2>2 DEF Ascending
  <2>3. CASE a[j] = m
    BY <2>1, <2>3
  <2>4. QED
    BY <1>2, <2>2, <2>3
<1>4. ASSUME NEW l \in Nat, n <= l, m <= l PROVE Issued(a, l)
  BY <1>2, <1>4, Listed DEF Issued
<1>5. ASSUME NEW t \in Lists, Issued(t, n), Before(t, s) PROVE Before(t, a)
  <2> SUFFICES ASSUME NEW i \in DOMAIN t, NEW j \in DOMAIN a, t[i] # 0, a[j] # 0 PROVE t[i] < a[j]
    BY DEF Before
  <2>1. t[i] \in Nat /\ t[i] <= n
    BY <1>5, Listed DEF Issued
  <2>2. CASE j \in DOMAIN s /\ a[j] = s[j]
    BY <1>5, <2>2 DEF Before
  <2>3. CASE a[j] = m
    BY <2>1, <2>3
  <2>4. QED
    BY <1>2, <2>2, <2>3
<1>6. QED
  BY <1>1, <1>3, <1>4, <1>5

(* A list that is put before another keeps the order when its data is      *)
(* before the other's.                                                     *)
LEMMA Chained ==
  ASSUME NEW s \in Lists, NEW t \in Lists, NEW u \in Lists,
         Ascending(s), Ascending(t), Before(s, t)
  PROVE  /\ Ascending(s \o t)
         /\ Before(s, u) /\ Before(t, u) => Before(s \o t, u)
         /\ Issued(s, pollSent.server) /\ Issued(t, pollSent.server) => Issued(s \o t, pollSent.server)
<1>1. /\ s \o t \in Lists /\ DOMAIN (s \o t) = 1 .. Len(s) + Len(t)
      /\ DOMAIN s = 1 .. Len(s) /\ DOMAIN t = 1 .. Len(t) /\ Len(s) \in Nat /\ Len(t) \in Nat
  BY DEF Lists
<1>2. \A i \in DOMAIN (s \o t) :
        \/ i \in DOMAIN s /\ (s \o t)[i] = s[i]
        \/ i > Len(s) /\ i - Len(s) \in DOMAIN t /\ (s \o t)[i] = t[i - Len(s)]
  BY <1>1 DEF Lists
<1>3. Ascending(s \o t)
  <2> SUFFICES ASSUME NEW i \in DOMAIN (s \o t), NEW j \in DOMAIN (s \o t), i < j,
                      (s \o t)[i] # 0, (s \o t)[j] # 0
               PROVE  (s \o t)[i] < (s \o t)[j]
    BY DEF Ascending
  <2>1. CASE i \in DOMAIN s /\ j \in DOMAIN s
    BY <1>1, <1>2, <2>1 DEF Ascending
  <2>2. CASE i \in DOMAIN s /\ j > Len(s)
    BY <1>1, <1>2, <2>2 DEF Before
  <2>3. CASE i > Len(s) /\ j > Len(s)
    BY <1>1, <1>2, <2>3 DEF Ascending
  <2>4. QED
    BY <1>1, <1>2, <2>1, <2>2, <2>3
<1>4. ASSUME Before(s, u), Before(t, u) PROVE Before(s \o t, u)
  BY <1>1, <1>2, <1>4 DEF Before
<1>5. ASSUME Issued(s, pollSent.server), Issued(t, pollSent.server) PROVE Issued(s \o t, pollSent.server)
  BY <1>1, <1>2, <1>5 DEF Issued
<1>6. QED
  BY <1>3, <1>4, <1>5

(* At first there is nothing.                                              *)
LEMMA PollStart == ASSUME PollBounds, Poll!Init PROVE PollsInv
<1>1. PollTyped
  BY DEF PollBounds, Poll!Init, PollTyped, PollClients, PollRecords, PollConns, Poll!NoPoll, Poll!NoConn,
         Poll!None, Poll!Loops, Poll!Polls, Lists, Poll!ChanStates
<1>2. OneAwaited /\ HeldPolls
  BY DEF Poll!Init, OneAwaited, HeldPolls, Poll!NoPoll, Poll!NoConn, Poll!None, Poll!Loops
<1>3. PollOrder
  BY DEF Poll!Init, PollOrder, Coming, Ascending, Before, Issued, Poll!NoPoll, Poll!NoConn
<1>4. QED
  BY <1>1, <1>2, <1>3 DEF PollsInv

(* A poll is sent: a free one takes the place of none.                     *)
LEMMA PollSent ==
  ASSUME PollBounds, PollsInv, NEW k \in Poll!FreePolls,
         pollLoop[1].at # "poll", pollClient'.starts = 1, pollClient' \in PollClients,
         pollPolls' = [pollPolls EXCEPT ![k] = Poll!NewPoll],
         pollLoop' = [pollLoop EXCEPT ![1] = [at |-> "poll", poll |-> k]],
         UNCHANGED <<pollConn, pollSChan, pollPosts, pollSent, pollGot, pollCuts>>
  PROVE  PollsInv'
<1> USE DEF PollsInv
<1>1. k \in Poll!Polls /\ ~ pollPolls[k].live /\ pollPolls[k].at = "none" /\ k \notin pollConn.timers
  BY DEF Poll!FreePolls
<1>3. PollTyped'
  BY <1>1 DEF PollTyped, PollClients, PollRecords, PollConns, Poll!Polls, PollBounds, Lists, Poll!NewPoll
<1>4. OneAwaited'
  BY <1>1 DEF PollTyped, PollClients, PollRecords, PollConns, OneAwaited, Poll!NewPoll
<1>5. HeldPolls'
  BY <1>1 DEF PollTyped, PollClients, PollRecords, PollConns, HeldPolls
<1>6. PollOrder'
  BY <1>1 DEF PollTyped, PollClients, PollRecords, PollConns, PollOrder, Coming, Poll!NewPoll, Ascending, Before, Issued
<1>7. QED
  BY <1>3, <1>4, <1>5, <1>6

(* The client starts, wakes up,                                            *)
LEMMA PollStarts ==
  ASSUME PollBounds, PollsInv, Poll!Start PROVE PollsInv'
<1>1. PICK k \in Poll!FreePolls :
        /\ pollPolls' = [pollPolls EXCEPT ![k] = Poll!NewPoll]
        /\ pollLoop' = [pollLoop EXCEPT ![pollClient.starts + 1] = [at |-> "poll", poll |-> k]]
        /\ pollClient' = [stop |-> FALSE, polling |-> TRUE, starts |-> pollClient.starts + 1, abort |-> k,
                           chan |-> pollClient.chan]
  BY DEF Poll!Start
<1>2. pollClient.starts = 0 /\ k \in 0 .. PollLast
  BY DEF Poll!Start, PollsInv, PollTyped, PollClients, PollRecords, PollConns, Poll!FreePolls, Poll!Polls, PollBounds
<1>3. pollLoop[1].at # "poll"
  BY <1>2 DEF PollsInv, OneAwaited
<1>4. pollClient' \in PollClients /\ pollClient'.starts = 1
  <2>1. pollClient \in PollClients
    BY DEF PollsInv, PollTyped
  <2>2. QED
    BY <1>1, <1>2, <2>1 DEF PollClients
<1>5. UNCHANGED <<pollConn, pollSChan, pollPosts, pollSent, pollGot, pollCuts>>
  BY DEF Poll!Start
<1>6. pollLoop' = [pollLoop EXCEPT ![1] = [at |-> "poll", poll |-> k]]
  BY <1>1, <1>2
<1>7. QED
  BY <1>1, <1>3, <1>4, <1>5, <1>6, PollSent
(* The delay of a loop ends.                                               *)
LEMMA PollWakes ==
  ASSUME PollBounds, PollsInv, Poll!Wake(1) PROVE PollsInv'
<1>1. pollLoop[1].at = "sleep" /\ pollClient.starts = 1
  BY DEF Poll!Wake, PollsInv, PollTyped, PollClients, PollRecords, PollConns, OneAwaited
<1>2. CASE pollClient.stop
  <2>1. /\ pollLoop' = [pollLoop EXCEPT ![1].at = "off"]
        /\ UNCHANGED <<pollClient, pollPolls, pollConn, pollSChan, pollPosts, pollSent, pollGot, pollCuts>>
    BY <1>2 DEF Poll!Wake
  <2>2. PollTyped' /\ OneAwaited'
    BY <1>1, <2>1 DEF PollsInv, PollTyped, PollClients, PollRecords, PollConns, OneAwaited
  <2>3. HeldPolls' /\ PollOrder'
    BY <2>1 DEF PollsInv, HeldPolls, PollOrder, Coming, Before, Issued
  <2>4. QED
    BY <2>2, <2>3 DEF PollsInv
<1>3. CASE ~ pollClient.stop
  <2>1. PICK k \in Poll!FreePolls :
          /\ pollPolls' = [pollPolls EXCEPT ![k] = Poll!NewPoll]
          /\ pollLoop' = [pollLoop EXCEPT ![1] = [at |-> "poll", poll |-> k]]
          /\ pollClient' = [pollClient EXCEPT !.abort = k]
    BY <1>3 DEF Poll!Wake, Poll!SendPoll
  <2>2. k \in 0 .. PollLast
    BY DEF PollBounds, Poll!FreePolls, Poll!Polls
  <2>3. QED
    BY <1>1, <2>1, <2>2, PollSent DEF Poll!Wake, PollsInv, PollTyped, PollClients, PollRecords, PollConns
<1>4. QED
  BY <1>2, <1>3

(* stops,                                                                  *)
LEMMA PollStops ==
  ASSUME PollBounds, PollsInv, Poll!Stop PROVE PollsInv'
<1> DEFINE aborted == {l \in Poll!Loops : pollLoop[l].at = "poll" /\ pollLoop[l].poll = pollClient.abort}
<1>1. /\ pollClient' = [stop |-> TRUE, polling |-> FALSE, starts |-> pollClient.starts, abort |-> 0, chan |-> "none"]
      /\ pollLoop' = [l \in Poll!Loops |-> IF l \in aborted THEN [at |-> "off", poll |-> 0] ELSE pollLoop[l]]
      /\ pollPolls' = [k \in Poll!Polls |-> IF \E l \in aborted : pollLoop[l].poll = k
                                            THEN [pollPolls[k] EXCEPT !.live = FALSE] ELSE pollPolls[k]]
      /\ UNCHANGED <<pollConn, pollSChan, pollPosts, pollSent, pollGot, pollCuts>>
  BY DEF Poll!Stop, Poll!None
<1>2. Poll!Loops = {1}
  BY DEF Poll!Loops
<1>3. PollTyped'
  <2>1. pollClient' \in PollClients
    <3>1. pollClient \in PollClients
      BY DEF PollsInv, PollTyped
    <3>2. QED
      BY <1>1, <3>1 DEF PollBounds, PollClients, Poll!ChanStates
  <2>2. pollLoop' \in [{1} -> [at : {"off", "sleep", "poll"}, poll : 0 .. PollLast]]
    BY <1>1, <1>2 DEF PollBounds, PollsInv, PollTyped, PollClients, PollRecords, PollConns
  <2>3. pollPolls' \in [Poll!Polls -> PollRecords]
    BY <1>1 DEF PollsInv, PollTyped, PollClients, PollRecords, PollConns
  <2>4. QED
    BY <1>1, <2>1, <2>2, <2>3 DEF PollsInv, PollTyped, PollClients, PollRecords, PollConns
<1>4. OneAwaited'
  BY <1>1, <1>2 DEF PollsInv, PollTyped, PollClients, PollRecords, PollConns, OneAwaited
<1>5. \A k \in Poll!Polls :
        /\ pollPolls'[k].at = pollPolls[k].at /\ pollPolls'[k].messages = pollPolls[k].messages
        /\ pollPolls'[k].live => pollPolls[k].live
  BY <1>1 DEF PollsInv, PollTyped, PollClients, PollRecords, PollConns
<1>6. HeldPolls'
  BY <1>1, <1>5 DEF PollsInv, PollTyped, PollClients, PollRecords, PollConns, HeldPolls
<1>7. PollOrder'
  BY <1>1, <1>5 DEF PollsInv, PollOrder, Coming, Before, Issued
<1>8. QED
  BY <1>3, <1>4, <1>6, <1>7 DEF PollsInv

(* receives a response,                                                    *)
LEMMA PollResponds ==
  ASSUME PollBounds, PollsInv, Poll!Response(1) PROVE PollsInv'
<1> DEFINE k == pollLoop[1].poll
           ms == pollPolls[k].messages
<1>1. /\ pollLoop[1].at = "poll" /\ pollPolls[k].at = "answered"
      /\ pollPolls' = [pollPolls EXCEPT ![k] = Poll!NoPoll]
      /\ pollLoop' = [pollLoop EXCEPT ![1] = [at |-> IF pollClient.stop THEN "off" ELSE "sleep", poll |-> 0]]
      /\ UNCHANGED <<pollConn, pollSChan, pollCuts>>
  BY DEF Poll!Response, Poll!None, Poll!Ended
<1>2. PICK after \in Poll!ChanStates :
        /\ pollClient' = [pollClient EXCEPT !.abort = 0, !.chan = after]
        /\ pollGot' = IF after = "established" THEN [pollGot EXCEPT !.client = @ \o ms] ELSE pollGot
  <2>1. pollClient.chan \in Poll!ChanStates
    BY DEF PollsInv, PollTyped, PollClients, PollRecords, PollConns
  <2>2. QED
    BY <2>1 DEF Poll!Response, Poll!ChanStates, Poll!None
<1>3. \/ UNCHANGED <<pollPosts, pollSent>>
      \/ pollPosts' = pollPosts \cup Poll!Post(0) /\ pollSent' = [pollSent EXCEPT !.posts = @ + 1]
  BY DEF Poll!Response
<1>4. k \in Poll!Polls /\ pollClient.starts = 1 /\ Coming(k) /\ ms \in Lists
  BY <1>1 DEF PollsInv, PollTyped, PollClients, PollRecords, PollConns, OneAwaited, Coming
<1>5. pollGot.client \in Lists /\ pollConn.queue \in Lists
  BY DEF PollsInv, PollTyped, PollClients, PollRecords, PollConns
<1>6. PollTyped'
  <2>1. pollClient' \in PollClients
    <3>1. pollClient \in PollClients
      BY DEF PollsInv, PollTyped
    <3>2. [pollClient EXCEPT !.abort = 0] \in PollClients
      BY <3>1 DEF PollBounds, PollClients
    <3>3. QED
      BY <1>2, <3>2 DEF PollClients
  <2>2. pollLoop' \in [{1} -> [at : {"off", "sleep", "poll"}, poll : 0 .. PollLast]]
    BY <1>1 DEF PollBounds, PollsInv, PollTyped, PollClients, PollRecords, PollConns
  <2>3. pollPolls' \in [Poll!Polls -> PollRecords]
    <3>1. pollPolls \in [Poll!Polls -> PollRecords]
      BY DEF PollsInv, PollTyped
    <3>2. Poll!NoPoll \in PollRecords
      BY DEF PollRecords, Poll!NoPoll, Lists
    <3>3. QED
      BY <1>1, <3>1, <3>2
  <2>4. pollPosts' \subseteq [nr : Nat, m : 0 .. PollData, failed : Nat]
        /\ pollSent' \in [posts : Nat, client : 0 .. PollData, server : 0 .. PollData]
    BY <1>3 DEF PollBounds, PollsInv, PollTyped, PollClients, PollRecords, PollConns, Poll!Post
  <2>5. pollGot.client \o ms \in Lists
    BY <1>4, <1>5 DEF Lists
  <2>6. pollGot' \in [client : Lists, server : Lists]
    BY <1>2, <2>5 DEF PollsInv, PollTyped, PollClients, PollRecords, PollConns
  <2>7. QED
    BY <1>1, <2>1, <2>2, <2>3, <2>4, <2>6 DEF PollsInv, PollTyped, PollClients, PollRecords, PollConns
<1>7. OneAwaited'
  BY <1>1, <1>2, <1>4 DEF PollsInv, PollTyped, PollClients, PollRecords, PollConns, OneAwaited, Poll!NoPoll
<1>8. HeldPolls'
  BY <1>1, <1>4 DEF PollsInv, PollTyped, PollClients, PollRecords, PollConns, HeldPolls, Coming
<1>9. pollSent'.server = pollSent.server
  BY <1>3 DEF PollsInv, PollTyped, PollClients, PollRecords, PollConns
<1>10. \A j \in Poll!Polls : ~ Coming(j)'
  BY <1>1, <1>4 DEF PollsInv, PollTyped, PollClients, PollRecords, PollConns, OneAwaited, Coming, Poll!NoPoll
<1>11. PollOrder'
  <2>1. CASE pollGot' = pollGot
    BY <1>1, <1>9, <1>10, <2>1 DEF PollsInv, PollOrder, Ascending, Before, Issued
  <2>2. CASE pollGot'.client = pollGot.client \o ms
    <3>1. /\ Ascending(pollGot.client) /\ Ascending(ms) /\ Before(pollGot.client, ms)
          /\ Before(pollGot.client, pollConn.queue) /\ Before(ms, pollConn.queue)
          /\ Issued(pollGot.client, pollSent.server) /\ Issued(ms, pollSent.server)
      BY <1>4 DEF PollsInv, PollOrder
    <3>2. /\ Ascending(pollGot.client \o ms) /\ Before(pollGot.client \o ms, pollConn.queue)
          /\ Issued(pollGot.client \o ms, pollSent.server)
      BY <1>4, <1>5, <3>1, Chained
    <3>3. Ascending(pollConn.queue) /\ Issued(pollConn.queue, pollSent.server)
      BY DEF PollsInv, PollOrder
    <3>4. QED
      BY <1>1, <1>9, <1>10, <2>2, <3>2, <3>3 DEF PollOrder, Issued
  <2>3. QED
    BY <1>2, <2>1, <2>2 DEF PollsInv, PollTyped, PollClients, PollRecords, PollConns
<1>12. QED
  BY <1>6, <1>7, <1>8, <1>11 DEF PollsInv

(* loses a poll,                                                           *)
LEMMA PollCut ==
  ASSUME PollBounds, PollsInv, Poll!Cut(1) PROVE PollsInv'
<1> DEFINE k == pollLoop[1].poll
<1>1. /\ pollLoop[1].at = "poll" /\ pollCuts' = pollCuts + 1
      /\ \/ pollPolls' = [pollPolls EXCEPT ![k].live = FALSE,
                                           ![k].at = IF @ = "answered" THEN "none" ELSE @]
         \/ pollPolls[k].at = "sent" /\ pollPolls' = [pollPolls EXCEPT ![k] = Poll!NoPoll]
      /\ pollLoop' = [pollLoop EXCEPT ![1] = [at |-> IF pollClient.stop THEN "off" ELSE "sleep", poll |-> 0]]
      /\ UNCHANGED <<pollClient, pollConn, pollSChan, pollPosts, pollSent, pollGot>>
  BY DEF Poll!Cut, Poll!None, Poll!Ended
<1>2. k \in Poll!Polls /\ pollClient.starts # 0
  BY <1>1 DEF PollsInv, OneAwaited
<1>3. PollTyped'
  <2>1. pollLoop' \in [{1} -> [at : {"off", "sleep", "poll"}, poll : 0 .. PollLast]]
    BY <1>1 DEF PollBounds, PollsInv, PollTyped, PollClients, PollRecords, PollConns
  <2>2. pollPolls' \in [Poll!Polls -> PollRecords]
    <3>1. pollPolls \in [Poll!Polls -> PollRecords] /\ pollPolls[k] \in PollRecords
      BY <1>2 DEF PollsInv, PollTyped
    <3>2. Poll!NoPoll \in PollRecords
      BY DEF PollRecords, Poll!NoPoll, Lists
    <3>3. CASE pollPolls' = [pollPolls EXCEPT ![k] = Poll!NoPoll]
      BY <3>1, <3>2, <3>3
    <3>4. CASE pollPolls' = [pollPolls EXCEPT ![k].live = FALSE,
                                              ![k].at = IF @ = "answered" THEN "none" ELSE @]
      BY <3>1, <3>4 DEF PollRecords
    <3>5. QED
      BY <1>1, <3>3, <3>4
  <2>3. QED
    BY <1>1, <2>1, <2>2 DEF PollsInv, PollTyped, PollClients, PollRecords, PollConns
<1>4. \A j \in Poll!Polls :
        /\ j # k => pollPolls'[j] = pollPolls[j]
        /\ j = k => ~ pollPolls'[j].live
        /\ pollPolls[j].at = "held" => pollPolls'[j].at = "held"
  BY <1>1, <1>2 DEF PollsInv, PollTyped, PollClients, PollRecords, PollConns, Poll!NoPoll
<1>5. OneAwaited'
  BY <1>1, <1>2, <1>4 DEF PollsInv, PollTyped, PollClients, PollRecords, PollConns, OneAwaited
<1>6. HeldPolls'
  BY <1>1, <1>4 DEF PollsInv, PollTyped, PollClients, PollRecords, PollConns, HeldPolls
<1>7. \A j \in Poll!Polls : ~ Coming(j)'
  BY <1>1, <1>4, <1>5 DEF PollsInv, PollTyped, PollClients, PollRecords, PollConns, OneAwaited, Coming
<1>8. PollOrder'
  BY <1>1, <1>7 DEF PollsInv, PollOrder, Ascending, Before, Issued
<1>9. QED
  BY <1>3, <1>5, <1>6, <1>8 DEF PollsInv

(* and sends something.                                                    *)
LEMMA PollClientSends ==
  ASSUME PollBounds, PollsInv, Poll!ClientSends PROVE PollsInv'
<1>1. /\ pollPosts' = pollPosts \cup Poll!Post(pollSent.client + 1)
      /\ pollSent.client < PollData
      /\ pollSent' = [pollSent EXCEPT !.posts = @ + 1, !.client = @ + 1]
      /\ UNCHANGED <<pollClient, pollLoop, pollPolls, pollConn, pollSChan, pollGot, pollCuts>>
  BY DEF Poll!ClientSends
<1>2. pollPosts' \subseteq [nr : Nat, m : 0 .. PollData, failed : Nat]
      /\ pollSent' \in [posts : Nat, client : 0 .. PollData, server : 0 .. PollData]
      /\ pollSent'.server = pollSent.server
  <2>1. pollSent \in [posts : Nat, client : 0 .. PollData, server : 0 .. PollData]
        /\ pollPosts \subseteq [nr : Nat, m : 0 .. PollData, failed : Nat]
    BY DEF PollsInv, PollTyped
  <2>2. pollSent.client + 1 \in 0 .. PollData
    BY <1>1, <2>1 DEF PollBounds
  <2>3. [pollSent EXCEPT !.posts = @ + 1] \in [posts : Nat, client : 0 .. PollData, server : 0 .. PollData]
    BY <2>1
  <2>4. pollSent' \in [posts : Nat, client : 0 .. PollData, server : 0 .. PollData]
        /\ pollSent'.server = pollSent.server
    BY <1>1, <2>1, <2>2, <2>3
  <2>5. QED
    BY <1>1, <2>1, <2>2, <2>4 DEF Poll!Post
<1>3. PollTyped'
  BY <1>1, <1>2 DEF PollsInv, PollTyped, PollClients, PollRecords, PollConns
<1>4. OneAwaited' /\ HeldPolls'
  BY <1>1 DEF PollsInv, OneAwaited, HeldPolls
<1>5. PollOrder'
  BY <1>1, <1>2 DEF PollsInv, PollOrder, Coming, Ascending, Before, Issued
<1>6. QED
  BY <1>3, <1>4, <1>5 DEF PollsInv

(* The server answers a poll: what is live gets the messages.              *)
LEMMA PollAnswers ==
  ASSUME NEW ps \in [Poll!Polls -> PollRecords], NEW k \in Poll!Polls, NEW ms \in Lists
  PROVE  LET new == Poll!Answered(ps, k, ms)
         IN  /\ new \in [Poll!Polls -> PollRecords]
             /\ \A j \in Poll!Polls : j # k => new[j] = ps[j]
             /\ new[k].live = ps[k].live /\ new[k].at \in {"answered", "none"}
             /\ new[k].live => new[k].at = "answered" /\ new[k].messages = ms
<1> DEFINE r == [ps[k] EXCEPT !.at = "answered"]
<1>1. ps[k] \in PollRecords
  OBVIOUS
<1>2. r \in PollRecords /\ r.live = ps[k].live /\ r.at = "answered"
  BY <1>1 DEF PollRecords
<1>3. /\ [ps[k] EXCEPT !.at = "answered", !.messages = ms] \in PollRecords
      /\ [ps[k] EXCEPT !.at = "answered", !.messages = ms].live = ps[k].live
      /\ [ps[k] EXCEPT !.at = "answered", !.messages = ms].at = "answered"
      /\ [ps[k] EXCEPT !.at = "answered", !.messages = ms].messages = ms
  BY <1>1, <1>2 DEF PollRecords
<1>4. Poll!NoPoll \in PollRecords /\ ~ Poll!NoPoll.live /\ Poll!NoPoll.at = "none"
  BY DEF PollRecords, Poll!NoPoll, Lists
<1>5. CASE ps[k].live
  <2>1. Poll!Answered(ps, k, ms) = [ps EXCEPT ![k] = [ps[k] EXCEPT !.at = "answered", !.messages = ms]]
    BY <1>5 DEF Poll!Answered
  <2>2. QED
    BY <1>3, <2>1
<1>6. CASE ~ ps[k].live
  <2>1. Poll!Answered(ps, k, ms) = [ps EXCEPT ![k] = Poll!NoPoll]
    BY <1>6 DEF Poll!Answered
  <2>2. ps[k].live \in BOOLEAN
    BY <1>1 DEF PollRecords
  <2>3. Poll!Answered(ps, k, ms)[k] = Poll!NoPoll
        /\ \A j \in Poll!Polls : j # k => Poll!Answered(ps, k, ms)[j] = ps[j]
    BY <2>1
  <2>4. Poll!Answered(ps, k, ms) \in [Poll!Polls -> PollRecords]
    BY <1>4, <2>1
  <2>5. ps[k].live = FALSE /\ Poll!NoPoll.live = FALSE
    BY <1>6, <2>2 DEF Poll!NoPoll
  <2>6. QED
    BY <1>4, <2>3, <2>4, <2>5
<1>7. QED
  BY <1>5, <1>6

(* Answering a poll that had none keeps the order, if what it is answered  *)
(* with comes from the queue, or is new.                                   *)
LEMMA PollHands ==
  ASSUME PollsInv, NEW k \in Poll!Polls, ~ Coming(k), NEW ms \in Lists,
         pollPolls' \in [Poll!Polls -> PollRecords],
         \A j \in Poll!Polls : j # k => pollPolls'[j].live = pollPolls[j].live
                                        /\ pollPolls'[j].at = pollPolls[j].at
                                        /\ pollPolls'[j].messages = pollPolls[j].messages,
         pollPolls'[k].live = pollPolls[k].live, pollPolls'[k].at # "held",
         pollPolls'[k].live => pollPolls'[k].at = "answered" /\ pollPolls'[k].messages = ms,
         Ascending(ms), Before(pollGot.client, ms), Issued(ms, pollSent'.server),
         pollSent'.server \in Nat, pollSent.server <= pollSent'.server, pollConn'.queue = <<>>,
         UNCHANGED pollLoop, pollClient'.starts = pollClient.starts, pollGot'.client = pollGot.client
  PROVE  OneAwaited' /\ PollOrder'
<1>1. OneAwaited'
  BY DEF PollsInv, OneAwaited
<1>2. \A j \in Poll!Polls : Coming(j)' =>
        \/ Coming(j) /\ pollPolls'[j].messages = pollPolls[j].messages
        \/ pollPolls'[j].messages = ms
  BY DEF Coming
<1>3. pollSent.server \in Nat /\ pollGot.client \in Lists
  BY DEF PollsInv, PollTyped
<1>4. \A s \in Lists : Issued(s, pollSent.server) => Issued(s, pollSent'.server)
  BY <1>3, StaysIssued
<1>5. \A j \in Poll!Polls : pollPolls[j].messages \in Lists
  BY DEF PollsInv, PollTyped, PollRecords
<1>6. \A s : Before(s, <<>>)
  BY DEF Before
<1>7. \A j \in Poll!Polls : Coming(j)' =>
        LET new == pollPolls'[j].messages
        IN  Ascending(new) /\ Before(pollGot.client, new) /\ Before(new, <<>>) /\ Issued(new, pollSent'.server)
  <2> SUFFICES ASSUME NEW j \in Poll!Polls, Coming(j)'
               PROVE  LET new == pollPolls'[j].messages
                      IN  Ascending(new) /\ Before(pollGot.client, new) /\ Before(new, <<>>) /\ Issued(new, pollSent'.server)
    OBVIOUS
  <2>1. CASE Coming(j) /\ pollPolls'[j].messages = pollPolls[j].messages
    BY <1>4, <1>5, <1>6, <2>1 DEF PollsInv, PollOrder
  <2>2. CASE pollPolls'[j].messages = ms
    BY <1>6, <2>2
  <2>3. QED
    BY <1>2, <2>1, <2>2
<1>8. Ascending(pollGot.client) /\ Issued(pollGot.client, pollSent'.server)
  BY <1>3, <1>4 DEF PollsInv, PollOrder
<1>9. Ascending(<<>>) /\ Issued(<<>>, pollSent'.server)
  BY DEF Ascending, Issued
<1>10. PollOrder'
  BY <1>6, <1>7, <1>8, <1>9 DEF PollOrder
<1>11. QED
  BY <1>1, <1>10

(* enqueue keeps the invariant: what is added is new, or no data.          *)
LEMMA PollEnqueues ==
  ASSUME PollBounds, PollsInv, NEW m \in 0 .. PollData,
         m # 0 => pollSent.server < m /\ m <= pollSent'.server,
         pollSent'.server \in Nat, pollSent.server <= pollSent'.server,
         pollConn' = Poll!Enqueued(m).conn, pollPolls' = Poll!Enqueued(m).polls,
         UNCHANGED <<pollLoop, pollClient>>, pollGot'.client = pollGot.client
  PROVE  /\ pollPolls' \in [Poll!Polls -> PollRecords] /\ pollConn' \in PollConns
         /\ OneAwaited' /\ HeldPolls' /\ PollOrder'
<1> DEFINE queue == Append(pollConn.queue, m)
<1>1. /\ pollConn.queue \in Lists /\ queue \in Lists /\ pollPolls \in [Poll!Polls -> PollRecords]
      /\ pollConn \in PollConns /\ pollSent.server \in Nat /\ pollGot.client \in Lists
  BY DEF PollsInv, PollTyped, PollConns, Lists
<1>2. \A s \in Lists : Issued(s, pollSent.server) => Issued(s, pollSent'.server)
  BY <1>1, StaysIssued
<1>3. CASE pollConn.resolver = 0
  <2>1. pollConn' = [pollConn EXCEPT !.queue = queue] /\ pollPolls' = pollPolls
    BY <1>3 DEF Poll!Enqueued, Poll!None
  <2>2. pollConn' \in PollConns /\ pollConn'.queue = queue /\ pollConn'.resolver = 0
        /\ pollConn'.timers = pollConn.timers
    BY <1>1, <1>3, <2>1 DEF PollConns
  <2>3. OneAwaited' /\ HeldPolls'
    BY <2>1, <2>2 DEF PollsInv, OneAwaited, HeldPolls
  <2>6. /\ Ascending(queue) /\ Issued(queue, pollSent'.server)
        /\ \A s \in Lists : Issued(s, pollSent.server) /\ Before(s, pollConn.queue) => Before(s, queue)
    <3>1. Ascending(pollConn.queue) /\ Issued(pollConn.queue, pollSent.server)
      BY DEF PollsInv, PollOrder
    <3>2. m <= pollSent'.server
      OBVIOUS
    <3>3. QED
      BY <1>1, <3>1, <3>2, ListAppended
  <2>8. \A k \in Poll!Polls : pollPolls[k].messages \in Lists
    BY <1>1 DEF PollRecords
  <2>9. PollOrder'
    <3>1. /\ Ascending(pollGot.client) /\ Before(pollGot.client, pollConn.queue)
          /\ Issued(pollGot.client, pollSent.server)
      BY DEF PollsInv, PollOrder
    <3>2. ASSUME NEW k \in Poll!Polls, Coming(k)'
          PROVE  LET ms == pollPolls'[k].messages
                 IN  Ascending(ms) /\ Before(pollGot.client, ms) /\ Before(ms, queue) /\ Issued(ms, pollSent'.server)
      <4>1. Coming(k) /\ pollPolls'[k].messages = pollPolls[k].messages
        BY <2>1, <3>2 DEF Coming
      <4>2. QED
        BY <1>2, <2>6, <2>8, <4>1 DEF PollsInv, PollOrder
    <3>3. QED
      BY <1>1, <1>2, <2>2, <2>6, <3>1, <3>2 DEF PollOrder
  <2>10. QED
    BY <1>1, <2>1, <2>2, <2>3, <2>9
<1>4. CASE pollConn.resolver # 0
  <2> DEFINE k == pollConn.resolver
  <2>1. k \in pollConn.timers /\ k \in Poll!Polls /\ pollPolls[k].at = "held" /\ pollConn.queue = <<>>
        /\ pollConn.timeout = k
    BY <1>1, <1>4 DEF PollsInv, HeldPolls, PollConns
  <2>2. queue = <<m>> /\ <<m>> \in Lists
    BY <1>1, <2>1
  <2>3. pollPolls' = Poll!Answered(pollPolls, k, queue)
    BY <1>4 DEF Poll!Enqueued, Poll!None, Poll!Handed
  <2>4. /\ pollConn'.queue = <<>> /\ pollConn'.resolver = 0
        /\ pollConn'.timers = pollConn.timers \ {k} /\ pollConn' \in PollConns
    <3>1. pollConn' = [there |-> pollConn.there, queue |-> <<>>, resolver |-> 0,
                       timers |-> pollConn.timers \ {k}, timeout |-> 0]
      BY <1>4, <2>1 DEF Poll!Enqueued, Poll!None, Poll!Drained, Poll!TimersLeft
    <3>2. <<>> \in Lists
      BY DEF Lists
    <3>3. QED
      BY <1>1, <3>1, <3>2 DEF PollConns, PollBounds
  <2>5. /\ pollPolls' \in [Poll!Polls -> PollRecords]
        /\ \A j \in Poll!Polls : j # k => pollPolls'[j] = pollPolls[j]
        /\ pollPolls'[k].live = pollPolls[k].live /\ pollPolls'[k].at \in {"answered", "none"}
        /\ pollPolls'[k].live => pollPolls'[k].at = "answered" /\ pollPolls'[k].messages = queue
    BY <1>1, <2>1, <2>3, PollAnswers
  <2>6. HeldPolls'
    BY <1>1, <2>1, <2>4, <2>5 DEF PollsInv, HeldPolls, PollConns
  <2>7. Ascending(queue) /\ Before(pollGot.client, queue) /\ Issued(queue, pollSent'.server)
    <3>1. Issued(pollGot.client, pollSent.server)
      BY DEF PollsInv, PollOrder
    <3>2. Ascending(<<>>) /\ Issued(<<>>, pollSent.server) /\ Before(pollGot.client, <<>>) /\ <<>> \in Lists
      BY DEF Ascending, Before, Issued, Lists
    <3>3. queue = Append(<<>>, m) /\ m <= pollSent'.server
      BY <2>1
    <3>4. QED
      BY <1>1, <3>1, <3>2, <3>3, ListAppended
  <2>8. OneAwaited' /\ PollOrder'
    <3>1. ~ Coming(k)
      BY <2>1 DEF Coming
    <3>2. QED
      BY <1>1, <2>1, <2>4, <2>5, <2>7, <3>1, PollHands
  <2>9. QED
    BY <2>4, <2>5, <2>6, <2>8
<1>5. QED
  BY <1>3, <1>4

(* Nothing is before and after anything.                                   *)
LEMMA NoMessages ==
  /\ <<>> \in Lists /\ Ascending(<<>>) /\ \A s : Before(s, <<>>) /\ Before(<<>>, s)
  /\ \A n : Issued(<<>>, n)
BY DEF Lists, Ascending, Before, Issued

(* A poll arrives: what is queued answers it, or it is held.               *)
LEMMA PollComes ==
  ASSUME PollBounds, PollsInv, NEW k \in Poll!Polls, Poll!PollArrives(k) PROVE PollsInv'
<1> DEFINE c == IF pollConn.there THEN pollConn ELSE [Poll!NoConn EXCEPT !.there = TRUE]
           p == [pollPolls EXCEPT ![k].new = ~ pollConn.there]
<1>1. /\ pollPolls[k].at = "sent"
      /\ pollSChan' = IF pollConn.there THEN pollSChan ELSE "connected"
      /\ UNCHANGED <<pollClient, pollLoop, pollPosts, pollSent, pollGot, pollCuts>>
  BY DEF Poll!PollArrives
<1>2. /\ pollPolls \in [Poll!Polls -> PollRecords] /\ pollConn \in PollConns /\ pollConn.queue \in Lists
      /\ pollSent.server \in Nat /\ pollGot.client \in Lists
  BY DEF PollsInv, PollTyped, PollConns
<1>3. pollSChan' \in Poll!ChanStates
  BY <1>1 DEF PollsInv, PollTyped, Poll!ChanStates
<1>4. pollPolls[k] \in PollRecords /\ pollConn.there \in BOOLEAN
  BY <1>2 DEF PollConns
<1>5. [pollPolls[k] EXCEPT !.new = ~ pollConn.there] \in PollRecords
  BY <1>4 DEF PollRecords
<1>6. p \in [Poll!Polls -> PollRecords] /\ p[k] = [pollPolls[k] EXCEPT !.new = ~ pollConn.there]
  BY <1>2, <1>5
<1>7. p[k].live = pollPolls[k].live /\ \A j \in Poll!Polls : j # k => p[j] = pollPolls[j]
  BY <1>2, <1>4, <1>6 DEF PollRecords
<1>8. k \notin pollConn.timers /\ ~ Coming(k)
  BY <1>1 DEF PollsInv, HeldPolls, Coming
<1>9. CASE c.queue # <<>>
  <2>1. pollConn.there
    BY <1>9 DEF Poll!NoConn
  <2>2. c = pollConn /\ pollConn.resolver = 0
    BY <1>9, <2>1 DEF PollsInv, HeldPolls
  <2>3. pollPolls' = Poll!Answered(p, k, pollConn.queue) /\ pollConn' = [pollConn EXCEPT !.queue = <<>>]
    BY <1>9, <2>2 DEF Poll!PollArrives, Poll!Drained
  <2>4. /\ pollPolls' \in [Poll!Polls -> PollRecords]
        /\ \A j \in Poll!Polls : j # k => pollPolls'[j] = p[j]
        /\ pollPolls'[k].live = p[k].live /\ pollPolls'[k].at \in {"answered", "none"}
        /\ pollPolls'[k].live => pollPolls'[k].at = "answered" /\ pollPolls'[k].messages = pollConn.queue
    <3> HIDE DEF p
    <3>1. p \in [Poll!Polls -> PollRecords] /\ pollConn.queue \in Lists
      BY <1>2, <1>6
    <3>2. QED
      BY <2>3, <3>1, PollAnswers
  <2>5. pollConn' \in PollConns /\ pollConn'.queue = <<>> /\ pollConn'.resolver = 0
        /\ pollConn'.timers = pollConn.timers
    BY <1>2, <2>2, <2>3, NoMessages DEF PollConns
  <2>6. HeldPolls'
    BY <1>7, <1>8, <1>2, <2>4, <2>5 DEF PollsInv, HeldPolls, PollConns
  <2>7. OneAwaited' /\ PollOrder'
    <3>1. /\ Ascending(pollConn.queue) /\ Before(pollGot.client, pollConn.queue)
          /\ Issued(pollConn.queue, pollSent.server)
      BY DEF PollsInv, PollOrder
    <3>2. \A j \in Poll!Polls : j # k => pollPolls'[j].live = pollPolls[j].live
                                        /\ pollPolls'[j].at = pollPolls[j].at
                                        /\ pollPolls'[j].messages = pollPolls[j].messages
      BY <1>7, <2>4
    <3>3. pollPolls'[k].live = pollPolls[k].live /\ pollPolls'[k].at # "held"
      BY <1>7, <2>4
    <3>4. pollSent'.server = pollSent.server /\ pollSent.server <= pollSent.server
      BY <1>1, <1>2
    <3>5. QED
      BY <1>1, <1>2, <1>8, <2>4, <2>5, <3>1, <3>2, <3>3, <3>4, PollHands
  <2>8. PollTyped'
    BY <1>1, <1>3, <2>4, <2>5 DEF PollsInv, PollTyped
  <2>9. QED
    BY <2>6, <2>7, <2>8 DEF PollsInv
<1>10. CASE c.queue = <<>>
  <2>1. /\ pollPolls' = [p EXCEPT ![k].at = "held"]
        /\ pollConn' = [there |-> TRUE, queue |-> <<>>, resolver |-> k,
                        timers |-> c.timers \cup {k}, timeout |-> k]
    BY <1>10 DEF Poll!PollArrives
  <2>2. [p[k] EXCEPT !.at = "held"] \in PollRecords
    BY <1>6 DEF PollRecords
  <2>3. /\ pollPolls' \in [Poll!Polls -> PollRecords] /\ pollPolls'[k].at = "held"
        /\ \A j \in Poll!Polls : j # k => pollPolls'[j] = pollPolls[j]
    BY <1>6, <1>7, <2>1, <2>2
  <2>4. pollPolls'[k].live = pollPolls[k].live
    BY <1>6, <1>7, <2>1, <2>2 DEF PollRecords
  <2>5. c.timers \subseteq pollConn.timers /\ pollConn.timers \in SUBSET Poll!Polls
    BY <1>2 DEF PollConns, Poll!NoConn
  <2>6. k \in 0 .. PollLast /\ k # 0
    BY DEF Poll!Polls, PollBounds
  <2>7. pollConn' \in PollConns
    BY <2>1, <2>5, <2>6, NoMessages DEF PollConns
  <2>8. OneAwaited'
    BY <1>1, <2>3, <2>4 DEF PollsInv, OneAwaited
  <2>9. HeldPolls'
    BY <2>1, <2>3, <2>5 DEF PollsInv, HeldPolls
  <2>10. PollOrder'
    <3>1. \A j \in Poll!Polls : Coming(j)' => Coming(j) /\ pollPolls'[j] = pollPolls[j]
      BY <2>3 DEF Coming
    <3>2. /\ Ascending(pollGot.client) /\ Issued(pollGot.client, pollSent.server)
          /\ \A j \in Poll!Polls : Coming(j) =>
               /\ Ascending(pollPolls[j].messages) /\ Before(pollGot.client, pollPolls[j].messages)
               /\ Issued(pollPolls[j].messages, pollSent.server)
      BY DEF PollsInv, PollOrder
    <3>3. QED
      BY <1>1, <2>1, <3>1, <3>2, NoMessages DEF PollOrder, Issued
  <2>11. PollTyped'
    BY <1>1, <1>3, <2>3, <2>7 DEF PollsInv, PollTyped
  <2>12. QED
    BY <2>8, <2>9, <2>10, <2>11 DEF PollsInv
<1>11. QED
  BY <1>9, <1>10

(* The answer that has no messages.                                        *)
LEMMA PollEmptied ==
  ASSUME PollBounds, PollsInv, NEW k \in Poll!Polls, pollPolls[k].at = "held",
         pollPolls' = Poll!Answered(pollPolls, k, <<>>),
         pollConn'.queue = <<>>, pollConn' \in PollConns, pollConn'.resolver = 0,
         pollConn'.timers \subseteq pollConn.timers \ {k}, pollSChan' \in Poll!ChanStates,
         UNCHANGED <<pollClient, pollLoop, pollPosts, pollSent, pollGot, pollCuts>>
  PROVE  PollsInv'
<1>1. /\ pollPolls \in [Poll!Polls -> PollRecords] /\ pollConn \in PollConns
      /\ pollSent.server \in Nat /\ pollGot.client \in Lists
  BY DEF PollsInv, PollTyped
<1>2. /\ pollPolls' \in [Poll!Polls -> PollRecords]
      /\ \A j \in Poll!Polls : j # k => pollPolls'[j] = pollPolls[j]
      /\ pollPolls'[k].live = pollPolls[k].live /\ pollPolls'[k].at \in {"answered", "none"}
      /\ pollPolls'[k].live => pollPolls'[k].at = "answered" /\ pollPolls'[k].messages = <<>>
  BY <1>1, NoMessages, PollAnswers
<1>3. HeldPolls'
  BY <1>1, <1>2 DEF PollsInv, HeldPolls, PollConns
<1>4. OneAwaited' /\ PollOrder'
  <2>1. ~ Coming(k)
    BY DEF Coming
  <2>2. pollSent'.server = pollSent.server /\ pollSent.server <= pollSent.server
    BY <1>1
  <2>3. QED
    BY <1>1, <1>2, <2>1, <2>2, NoMessages, PollHands
<1>5. PollTyped'
  BY <1>2 DEF PollsInv, PollTyped
<1>6. QED
  BY <1>3, <1>4, <1>5 DEF PollsInv

(* The timer of a poll fires.                                              *)
LEMMA PollTimer ==
  ASSUME PollBounds, PollsInv, NEW k \in Poll!Polls, Poll!TimerFires(k) PROVE PollsInv'
<1>1. k \in pollConn.timers /\ pollPolls[k].at = "held" /\ pollConn \in PollConns
      /\ UNCHANGED <<pollClient, pollLoop, pollSChan, pollPosts, pollSent, pollGot, pollCuts>>
  BY DEF Poll!TimerFires, PollsInv, HeldPolls, PollTyped
<1>2. CASE pollConn.resolver # 0
  <2>1. /\ pollConn.queue = <<>> /\ pollPolls' = Poll!Answered(pollPolls, k, <<>>)
        /\ pollConn' = [there |-> pollConn.there, queue |-> <<>>, resolver |-> 0,
                        timers |-> pollConn.timers \ {k}, timeout |-> 0]
    BY <1>2 DEF Poll!TimerFires, Poll!None, Poll!Drained, PollsInv, HeldPolls
  <2>2. pollConn' \in PollConns
    BY <1>1, <2>1, NoMessages DEF PollConns, PollBounds
  <2>3. pollSChan' \in Poll!ChanStates
    BY <1>1 DEF PollsInv, PollTyped
  <2>4. QED
    BY <1>1, <2>1, <2>2, <2>3, PollEmptied
<1>3. CASE pollConn.resolver = 0
  <2>1. pollConn' = [pollConn EXCEPT !.timers = @ \ {k}] /\ pollPolls' = pollPolls
    BY <1>3 DEF Poll!TimerFires, Poll!None
  <2>2. /\ pollConn' \in PollConns /\ pollConn'.queue = pollConn.queue /\ pollConn'.resolver = 0
        /\ pollConn'.timers = pollConn.timers \ {k}
    BY <1>1, <1>3, <2>1 DEF PollConns
  <2>3. PollTyped'
    BY <1>1, <2>1, <2>2 DEF PollsInv, PollTyped
  <2>4. OneAwaited' /\ HeldPolls'
    BY <1>1, <2>1, <2>2 DEF PollsInv, OneAwaited, HeldPolls
  <2>5. PollOrder'
    BY <1>1, <2>1, <2>2 DEF PollsInv, PollOrder, Coming, Issued
  <2>6. QED
    BY <2>3, <2>4, <2>5 DEF PollsInv
<1>4. QED
  BY <1>2, <1>3

(* A POST arrives,                                                         *)
LEMMA PollPostArrives ==
  ASSUME PollBounds, PollsInv, NEW p \in pollPosts, Poll!PostArrives(p) PROVE PollsInv'
<1>1. /\ \/ pollPosts' = pollPosts \ {p}
         \/ pollPosts' = (pollPosts \ {p}) \cup {[p EXCEPT !.failed = @ + 1]}
      /\ \/ /\ pollSChan' = "established"
            /\ pollConn' = Poll!Enqueued(0).conn /\ pollPolls' = Poll!Enqueued(0).polls
         \/ UNCHANGED <<pollSChan, pollConn, pollPolls>>
      /\ \/ pollGot' = pollGot
         \/ p.m # 0 /\ pollGot' = [pollGot EXCEPT !.server = Append(@, p.m)]
      /\ UNCHANGED <<pollClient, pollLoop, pollSent, pollCuts>>
  BY DEF Poll!PostArrives
<1>2. pollPosts \subseteq [nr : Nat, m : 0 .. PollData, failed : Nat] /\ pollSChan \in Poll!ChanStates
      /\ pollGot \in [client : Lists, server : Lists] /\ pollSent.server \in Nat
      /\ pollPolls \in [Poll!Polls -> PollRecords] /\ pollConn \in PollConns
  BY DEF PollsInv, PollTyped
<1>3. pollPosts' \subseteq [nr : Nat, m : 0 .. PollData, failed : Nat]
  BY <1>1, <1>2
<1>4. pollGot' \in [client : Lists, server : Lists] /\ pollGot'.client = pollGot.client
  <2>1. CASE pollGot' = pollGot
    BY <1>2, <2>1
  <2>2. CASE pollGot' = [pollGot EXCEPT !.server = Append(@, p.m)]
    <3>1. p.m \in 0 .. PollData /\ pollGot.server \in Lists
      BY <1>2
    <3>2. Append(pollGot.server, p.m) \in Lists
      BY <3>1 DEF Lists
    <3>3. QED
      BY <1>2, <2>2, <3>2
  <2>3. QED
    BY <1>1, <2>1, <2>2
<1>5. pollSChan' \in Poll!ChanStates
  BY <1>1, <1>2 DEF Poll!ChanStates
<1>6. /\ pollPolls' \in [Poll!Polls -> PollRecords] /\ pollConn' \in PollConns
      /\ OneAwaited' /\ HeldPolls' /\ PollOrder'
  <2>1. CASE UNCHANGED <<pollSChan, pollConn, pollPolls>>
    <3>1. OneAwaited' /\ HeldPolls'
      BY <1>1, <2>1 DEF PollsInv, OneAwaited, HeldPolls
    <3>2. PollOrder'
      BY <1>1, <1>4, <2>1 DEF PollsInv, PollOrder, Coming, Issued
    <3>3. QED
      BY <1>2, <2>1, <3>1, <3>2
  <2>2. CASE pollConn' = Poll!Enqueued(0).conn /\ pollPolls' = Poll!Enqueued(0).polls
    <3>1. 0 \in 0 .. PollData /\ pollSent'.server \in Nat /\ pollSent.server <= pollSent'.server
      BY <1>1, <1>2 DEF PollBounds
    <3>2. QED
      BY <1>1, <1>4, <2>2, <3>1, PollEnqueues
  <2>3. QED
    BY <1>1, <2>1, <2>2
<1>7. PollTyped'
  BY <1>1, <1>3, <1>4, <1>5, <1>6 DEF PollsInv, PollTyped
<1>8. QED
  BY <1>6, <1>7 DEF PollsInv

(* does not,                                                               *)
LEMMA PollPostFails ==
  ASSUME PollBounds, PollsInv, NEW p \in pollPosts, Poll!PostFails(p) PROVE PollsInv'
<1>1. /\ pollPosts' = (pollPosts \ {p}) \cup {[p EXCEPT !.failed = @ + 1]}
      /\ UNCHANGED <<pollClient, pollLoop, pollPolls, pollConn, pollSChan, pollSent, pollGot, pollCuts>>
  BY DEF Poll!PostFails, Poll!Retry
<1>2. PollTyped'
  BY <1>1 DEF PollsInv, PollTyped
<1>3. OneAwaited' /\ HeldPolls' /\ PollOrder'
  BY <1>1 DEF PollsInv, OneAwaited, HeldPolls, PollOrder, Coming
<1>4. QED
  BY <1>2, <1>3 DEF PollsInv

(* the server sends,                                                       *)
LEMMA PollServerSends ==
  ASSUME PollBounds, PollsInv, Poll!ServerSends PROVE PollsInv'
<1> DEFINE m == pollSent.server + 1
<1>1. /\ pollSent.server < PollData /\ pollSent' = [pollSent EXCEPT !.server = @ + 1]
      /\ pollConn' = Poll!Enqueued(m).conn /\ pollPolls' = Poll!Enqueued(m).polls
      /\ UNCHANGED <<pollClient, pollLoop, pollSChan, pollPosts, pollGot, pollCuts>>
  BY DEF Poll!ServerSends
<1>2. pollSent \in [posts : Nat, client : 0 .. PollData, server : 0 .. PollData]
  BY DEF PollsInv, PollTyped
<1>3. m \in 0 .. PollData /\ pollSent'.server = m /\ pollSent.server \in Nat
      /\ pollSent' \in [posts : Nat, client : 0 .. PollData, server : 0 .. PollData]
  BY <1>1, <1>2 DEF PollBounds
<1>4. /\ pollPolls' \in [Poll!Polls -> PollRecords] /\ pollConn' \in PollConns
      /\ OneAwaited' /\ HeldPolls' /\ PollOrder'
  BY <1>1, <1>3, PollEnqueues
<1>5. PollTyped'
  BY <1>1, <1>3, <1>4 DEF PollsInv, PollTyped
<1>6. QED
  BY <1>4, <1>5 DEF PollsInv

(* and drops the connection.                                               *)
LEMMA PollCleanup ==
  ASSUME PollBounds, PollsInv, Poll!Cleanup PROVE PollsInv'
<1>1. /\ pollConn' = Poll!NoConn /\ pollSChan' = "none"
      /\ pollPolls' = IF pollConn.resolver = 0 THEN pollPolls
                      ELSE Poll!Answered(pollPolls, pollConn.resolver, pollConn.queue)
      /\ UNCHANGED <<pollClient, pollLoop, pollPosts, pollSent, pollGot, pollCuts>>
  BY DEF Poll!Cleanup, Poll!None, Poll!ChannelRemoved
<1>2. pollConn' \in PollConns /\ pollConn'.queue = <<>> /\ pollConn'.resolver = 0 /\ pollConn'.timers = {}
  BY <1>1, NoMessages DEF PollConns, Poll!NoConn, Poll!None, PollBounds
<1>3. pollSChan' \in Poll!ChanStates
  BY <1>1 DEF Poll!ChanStates
<1>4. CASE pollConn.resolver = 0
  <2>1. pollPolls' = pollPolls
    BY <1>1, <1>4
  <2>2. PollTyped'
    BY <1>1, <1>2, <1>3, <2>1 DEF PollsInv, PollTyped
  <2>3. OneAwaited' /\ HeldPolls'
    BY <1>1, <1>2, <2>1 DEF PollsInv, OneAwaited, HeldPolls
  <2>4. PollOrder'
    BY <1>1, <1>2, <2>1, NoMessages DEF PollsInv, PollOrder, Coming, Issued
  <2>5. QED
    BY <2>2, <2>3, <2>4 DEF PollsInv
<1>5. CASE pollConn.resolver # 0
  <2>1. /\ pollConn.resolver \in Poll!Polls /\ pollPolls[pollConn.resolver].at = "held"
        /\ pollPolls' = Poll!Answered(pollPolls, pollConn.resolver, <<>>)
    BY <1>1, <1>5 DEF PollsInv, HeldPolls, PollTyped, PollConns
  <2>2. QED
    BY <1>1, <1>2, <1>3, <2>1, PollEmptied
<1>6. QED
  BY <1>4, <1>5

-----------------------------------------------------------------------------
(* What holds while the client polls and no poll was cut.                  *)

PollRuns == pollCuts = 0 /\ pollClient.polling
Holds(s, m) == \E i \in DOMAIN s : s[i] = m
Has(k, m) == pollPolls[k].at = "answered" /\ Holds(pollPolls[k].messages, m)
(* The client has established, or no message was sent, or the response of  *)
(* the hand shake comes before the first.                                  *)
NothingSent ==
  /\ pollSChan # "established" /\ pollConn.queue = <<>> /\ pollSent.server = 0
  /\ \A k \in Poll!Polls : pollPolls[k].at = "answered" => pollPolls[k].messages = <<>>
AnsweredFirst ==
  /\ pollSChan = "established"
  /\ \/ \E k \in Poll!Polls : Has(k, 0)
     \/ /\ Holds(pollConn.queue, 0)
        /\ \A k \in Poll!Polls : pollPolls[k].at = "answered" => pollPolls[k].messages = <<>>
PollTold == pollClient.chan = "established" \/ NothingSent \/ AnsweredFirst
(* Each message is with the client, on its way or in the queue.            *)
Covered ==
  \A m \in 1 .. pollSent.server :
    \/ Holds(pollGot.client, m)
    \/ \E k \in Poll!Polls : Has(k, m)
    \/ Holds(pollConn.queue, m)
(* The client awaits each poll, and the server answers the one that waits. *)
AllAwaited ==
  /\ ~ pollClient.stop /\ pollClient.starts = 1 /\ pollLoop[1].at # "off"
  /\ \A k \in Poll!Polls : /\ pollPolls[k].at # "none" => pollPolls[k].live
                           /\ pollPolls[k].at = "held" => pollConn.resolver = k
  /\ pollPosts # {} \/ pollSChan = "established" => pollClient.chan # "none"
  /\ ~ pollConn.there => pollSChan = "none" /\ pollConn.queue = <<>>
PollsKept ==
  /\ pollClient.starts = 0 => Poll!Init
  /\ PollRuns => AllAwaited /\ PollTold /\ Covered

(* At first nothing was sent.                                              *)
LEMMA PollKeptFirst == ASSUME Poll!Init PROVE PollsKept
BY DEF Poll!Init, PollsKept, PollRuns

(* Before the client starts nothing happens.                               *)
LEMMA PollIdle ==
  ASSUME PollBounds, PollsInv, PollsKept, pollClient.starts = 0, Poll!Next PROVE Poll!Start
<1>1. Poll!Init
  BY DEF PollsKept
<1>2. Poll!Loops = {1}
  BY DEF Poll!Loops
<1>3. ~ Poll!Stop /\ ~ Poll!ClientSends /\ ~ Poll!ServerSends /\ ~ Poll!Cleanup
  BY <1>1 DEF Poll!Init, Poll!Stop, Poll!ClientSends, Poll!ServerSends, Poll!Cleanup, Poll!NoConn
<1>4. ~ Poll!Wake(1) /\ ~ Poll!Response(1) /\ ~ Poll!Cut(1)
  BY <1>1, <1>2 DEF Poll!Init, Poll!Wake, Poll!Response, Poll!Cut
<1>5. ASSUME NEW k \in Poll!Polls PROVE ~ Poll!PollArrives(k) /\ ~ Poll!TimerFires(k)
  BY <1>1 DEF Poll!Init, Poll!PollArrives, Poll!TimerFires, Poll!NoPoll, Poll!NoConn
<1>6. pollPosts = {}
  BY <1>1 DEF Poll!Init
<1>7. QED
  BY <1>2, <1>3, <1>4, <1>5, <1>6 DEF Poll!Next

(* Of the polls only that which the client awaits is anywhere.             *)
LEMMA NoOther ==
  ASSUME PollsInv, PollsKept, PollRuns, NEW k \in Poll!Polls, pollPolls[k].live
  PROVE  /\ pollLoop[1].at = "poll" /\ pollLoop[1].poll = k
         /\ \A j \in Poll!Polls : j # k => pollPolls[j].at = "none"
BY DEF PollsInv, OneAwaited, PollsKept, AllAwaited

(* The server answers a poll with all that was in the queue.               *)
LEMMA AnswerKeeps ==
  ASSUME PollsInv, PollsKept, PollRuns, NEW k \in Poll!Polls, NEW ms \in Lists,
         pollPolls[k].at \in {"sent", "held"},
         \A j \in Poll!Polls : j # k => pollPolls'[j] = pollPolls[j],
         pollPolls'[k].live = pollPolls[k].live,
         pollPolls'[k].live => pollPolls'[k].at = "answered" /\ pollPolls'[k].messages = ms,
         pollConn'.queue = <<>>, ~ pollConn'.there => pollSChan' = "none",
         pollSent'.server \in Nat, pollSent.server \in Nat,
         \A m \in 1 .. pollSent'.server : m <= pollSent.server \/ Holds(ms, m),
         \A m \in Nat : Holds(pollConn.queue, m) => Holds(ms, m),
         \/ pollClient.chan = "established"
         \/ pollSChan' = "established" /\ Holds(ms, 0)
         \/ pollSChan' # "established" /\ ms = <<>> /\ pollSent'.server = 0,
         pollPosts' # {} \/ pollSChan' = "established" => pollClient.chan # "none",
         pollGot'.client = pollGot.client, UNCHANGED <<pollClient, pollLoop, pollCuts>>
  PROVE  PollsKept'
<1>1. pollPolls[k].live /\ AllAwaited /\ Covered
  BY DEF PollsKept, AllAwaited
<1>2. \A j \in Poll!Polls : j # k => pollPolls[j].at = "none"
  BY <1>1, NoOther
<1>3. /\ pollPolls'[k].at = "answered" /\ pollPolls'[k].messages = ms /\ pollPolls'[k].live
      /\ \A j \in Poll!Polls : j # k => pollPolls'[j].at = "none"
  BY <1>1, <1>2
<1>4. AllAwaited'
  BY <1>1, <1>3 DEF AllAwaited
<1>5. \A m : Holds(ms, m) => Has(k, m)'
  BY <1>3 DEF Has, Holds
<1>6. PollTold'
  <2>1. CASE pollClient.chan = "established"
    BY <2>1 DEF PollTold
  <2>2. CASE pollSChan' = "established" /\ Holds(ms, 0)
    BY <1>5, <2>2 DEF PollTold, AnsweredFirst
  <2>3. CASE pollSChan' # "established" /\ ms = <<>> /\ pollSent'.server = 0
    BY <1>3, <2>3 DEF PollTold, NothingSent
  <2>4. QED
    BY <2>1, <2>2, <2>3
<1>7. Covered'
  <2> SUFFICES ASSUME NEW m \in 1 .. pollSent'.server
               PROVE  Holds(pollGot'.client, m) \/ \E j \in Poll!Polls : Has(j, m)'
    BY DEF Covered
  <2>1. CASE Holds(ms, m)
    BY <1>5, <2>1
  <2>2. CASE m <= pollSent.server
    <3>1. ~ \E j \in Poll!Polls : Has(j, m)
      BY <1>2 DEF Has
    <3>2. m \in 1 .. pollSent.server /\ m \in Nat
      BY <2>2
    <3>3. Holds(pollGot.client, m) \/ Holds(pollConn.queue, m)
      BY <1>1, <3>1, <3>2 DEF Covered
    <3>4. QED
      BY <1>5, <3>2, <3>3
  <2>3. QED
    BY <2>1, <2>2
<1>8. pollClient'.starts # 0
  BY <1>1 DEF AllAwaited
<1>9. QED
  BY <1>4, <1>6, <1>7, <1>8 DEF PollsKept

(* A list that is appended to holds what it held, and the message.         *)
LEMMA HoldsAppended ==
  ASSUME NEW s \in Lists, NEW n \in 0 .. PollData
  PROVE  Holds(Append(s, n), n) /\ \A m : Holds(s, m) => Holds(Append(s, n), m)
<1>1. /\ Len(Append(s, n)) = Len(s) + 1 /\ Append(s, n)[Len(s) + 1] = n
      /\ \A i \in 1 .. Len(s) : Append(s, n)[i] = s[i]
      /\ Append(s, n) \in Seq(0 .. PollData)
  BY AppendProperties DEF Lists
<1>2. DOMAIN Append(s, n) = 1 .. Len(s) + 1 /\ DOMAIN s = 1 .. Len(s) /\ Len(s) \in Nat
  BY <1>1, Listed
<1>3. Len(s) + 1 \in 1 .. Len(s) + 1 /\ \A i \in 1 .. Len(s) : i \in 1 .. Len(s) + 1
  BY <1>2
<1>4. QED
  BY <1>1, <1>2, <1>3 DEF Holds

(* The poll that waits is answered with the message that is enqueued.      *)
LEMMA ResolverAnswers ==
  ASSUME PollsInv, NEW n \in 0 .. PollData, pollConn.resolver # 0,
         pollConn' = Poll!Enqueued(n).conn, pollPolls' = Poll!Enqueued(n).polls
  PROVE  LET k == pollConn.resolver
         IN  /\ k \in Poll!Polls /\ pollPolls[k].at = "held" /\ pollConn.queue = <<>> /\ <<n>> \in Lists
             /\ pollPolls' = Poll!Answered(pollPolls, k, <<n>>)
             /\ pollConn'.queue = <<>> /\ pollConn'.there = pollConn.there
<1> DEFINE k == pollConn.resolver
<1>1. k \in Poll!Polls /\ pollPolls[k].at = "held" /\ pollConn.queue = <<>>
  BY DEF PollsInv, HeldPolls, PollTyped, PollConns
<1>2. Append(pollConn.queue, n) = <<n>> /\ <<n>> \in Lists
  BY <1>1 DEF Lists
<1>3. pollPolls' = Poll!Answered(pollPolls, k, <<n>>)
  BY <1>2 DEF Poll!Enqueued, Poll!None, Poll!Handed
<1>4. pollConn'.queue = <<>> /\ pollConn'.there = pollConn.there
  BY DEF Poll!Enqueued, Poll!None, Poll!Drained
<1>5. QED
  BY <1>1, <1>2, <1>3, <1>4

(* What one of two lists holds, both hold together.                        *)
LEMMA ListsJoined ==
  ASSUME NEW s \in Lists, NEW t \in Lists, NEW m, Holds(s, m) \/ Holds(t, m)
  PROVE  Holds(s \o t, m)
<1>1. /\ Len(s \o t) = Len(s) + Len(t) /\ s \o t \in Seq(0 .. PollData)
      /\ \A i \in 1 .. Len(s) : (s \o t)[i] = s[i]
      /\ \A i \in 1 .. Len(t) : (s \o t)[Len(s) + i] = t[i]
  BY ConcatProperties DEF Lists
<1>2. DOMAIN (s \o t) = 1 .. Len(s) + Len(t)
  BY <1>1
<1>3. DOMAIN s = 1 .. Len(s) /\ DOMAIN t = 1 .. Len(t) /\ Len(s) \in Nat /\ Len(t) \in Nat
  BY Listed
<1>4. CASE Holds(s, m)
  BY <1>1, <1>2, <1>3, <1>4 DEF Holds
<1>5. CASE Holds(t, m)
  <2>1. PICK i \in 1 .. Len(t) : t[i] = m
    BY <1>3, <1>5 DEF Holds
  <2>2. Len(s) + i \in 1 .. Len(s) + Len(t)
    BY <1>3
  <2>3. QED
    BY <1>1, <1>2, <2>1, <2>2 DEF Holds
<1>6. QED
  BY <1>4, <1>5

(* The steps of the client keep it.                                        *)
LEMMA KeptStarts ==
  ASSUME PollBounds, PollsInv, PollsKept, Poll!Start PROVE PollsKept'
<1>1. pollClient.starts = 0 /\ Poll!Init
  BY DEF Poll!Start, PollsKept, PollsInv, PollTyped, PollClients
<1>2. PICK k \in Poll!FreePolls :
        /\ pollPolls' = [pollPolls EXCEPT ![k] = Poll!NewPoll]
        /\ pollLoop' = [pollLoop EXCEPT ![pollClient.starts + 1] = [at |-> "poll", poll |-> k]]
        /\ pollClient' = [stop |-> FALSE, polling |-> TRUE, starts |-> pollClient.starts + 1, abort |-> k,
                           chan |-> pollClient.chan]
  BY DEF Poll!Start
<1>3. UNCHANGED <<pollConn, pollSChan, pollPosts, pollSent, pollGot, pollCuts>>
  BY DEF Poll!Start
<1>4. pollLoop \in [{1} -> [at : {"off", "sleep", "poll"}, poll : 0 .. PollLast]]
  BY DEF PollsInv, PollTyped
<1>5. k \in Poll!Polls /\ \A j \in Poll!Polls : pollPolls[j] = Poll!NoPoll /\ pollPolls \in [Poll!Polls -> PollRecords]
  BY <1>1 DEF Poll!FreePolls, Poll!Init, PollsInv, PollTyped
<1>6. /\ \A j \in Poll!Polls : j # k => pollPolls'[j].at = "none"
      /\ pollPolls'[k].at = "sent" /\ pollPolls'[k].live
  BY <1>2, <1>5 DEF Poll!NewPoll, Poll!NoPoll
<1>7. AllAwaited'
  <2>1. pollLoop'[1].at = "poll"
    BY <1>1, <1>2, <1>4
  <2>2. ~ pollClient'.stop /\ pollClient'.starts = 1
    BY <1>1, <1>2
  <2>3. pollPosts = {} /\ pollSChan = "none" /\ pollConn.queue = <<>>
    BY <1>1 DEF Poll!Init, Poll!NoConn
  <2>4. QED
    BY <1>3, <1>6, <2>1, <2>2, <2>3 DEF AllAwaited
<1>8. PollTold' /\ Covered'
  BY <1>1, <1>3, <1>6 DEF Poll!Init, Poll!NoConn, PollTold, NothingSent, Covered
<1>9. QED
  BY <1>1, <1>2, <1>7, <1>8 DEF PollsKept

(* The loop sends the next poll, which the client awaits.                  *)
LEMMA KeptWakes ==
  ASSUME PollBounds, PollsInv, PollsKept, pollClient.starts # 0, Poll!Wake(1) PROVE PollsKept'
<1>1. pollLoop[1].at = "sleep" /\ UNCHANGED <<pollConn, pollSChan, pollPosts, pollSent, pollGot, pollCuts>>
  BY DEF Poll!Wake
<1>2. pollLoop \in [{1} -> [at : {"off", "sleep", "poll"}, poll : 0 .. PollLast]] /\ pollClient \in PollClients
      /\ pollPolls \in [Poll!Polls -> PollRecords]
  BY DEF PollsInv, PollTyped
<1>3. pollClient'.starts # 0 /\ pollClient'.polling = pollClient.polling
  BY <1>2 DEF Poll!Wake, Poll!SendPoll, PollClients
<1>4. SUFFICES ASSUME PollRuns PROVE AllAwaited' /\ PollTold' /\ Covered'
  BY <1>1, <1>3 DEF PollsKept, PollRuns
<1>5. AllAwaited /\ PollTold /\ Covered /\ ~ pollClient.stop
  BY <1>4 DEF PollsKept, AllAwaited
<1>6. PICK k \in Poll!FreePolls :
        /\ pollPolls' = [pollPolls EXCEPT ![k] = Poll!NewPoll]
        /\ pollLoop' = [pollLoop EXCEPT ![1] = [at |-> "poll", poll |-> k]]
        /\ pollClient' = [pollClient EXCEPT !.abort = k]
  BY <1>5 DEF Poll!Wake, Poll!SendPoll
<1>7. k \in Poll!Polls /\ pollPolls[k].at = "none"
  BY DEF Poll!FreePolls
<1>8. /\ \A j \in Poll!Polls : j # k => pollPolls'[j] = pollPolls[j]
      /\ pollPolls'[k].at = "sent" /\ pollPolls'[k].live
  BY <1>2, <1>6, <1>7 DEF Poll!NewPoll
<1>9. /\ pollClient'.chan = pollClient.chan /\ pollClient'.stop = pollClient.stop
      /\ pollClient'.starts = pollClient.starts /\ pollLoop'[1].at = "poll"
  BY <1>2, <1>6 DEF PollClients
<1>10. AllAwaited'
  BY <1>1, <1>5, <1>8, <1>9 DEF AllAwaited
<1>11. \A j \in Poll!Polls : \A m : Has(j, m)' <=> Has(j, m)
  BY <1>7, <1>8 DEF Has
<1>12. \A j \in Poll!Polls : pollPolls'[j].at = "answered" => pollPolls[j].at = "answered" /\ pollPolls'[j] = pollPolls[j]
  BY <1>8
<1>13. PollTold'
  BY <1>1, <1>5, <1>9, <1>11, <1>12 DEF PollTold, NothingSent, AnsweredFirst
<1>14. Covered'
  BY <1>1, <1>5, <1>11 DEF Covered
<1>15. QED
  BY <1>10, <1>13, <1>14

(* A client that was stopped does not poll.                                *)
LEMMA KeptStops ==
  ASSUME PollsInv, PollsKept, pollClient.starts # 0, Poll!Stop PROVE PollsKept'
BY DEF Poll!Stop, PollsKept, PollRuns

(* Nothing is claimed once a poll was cut.                                 *)
LEMMA KeptCut ==
  ASSUME PollsInv, PollsKept, pollClient.starts # 0, Poll!Cut(1) PROVE PollsKept'
<1>1. pollCuts' = pollCuts + 1 /\ pollClient' = pollClient /\ pollCuts \in Nat
  BY DEF Poll!Cut, PollsInv, PollTyped
<1>2. ~ PollRuns'
  BY <1>1 DEF PollRuns
<1>3. QED
  BY <1>1, <1>2 DEF PollsKept

(* What comes with the response is what the client has then.               *)
LEMMA KeptResponds ==
  ASSUME PollBounds, PollsInv, PollsKept, pollClient.starts # 0, Poll!Response(1) PROVE PollsKept'
<1> DEFINE k == pollLoop[1].poll
           ms == pollPolls[k].messages
           opens == pollPolls[k].new /\ pollClient.chan = "none"
           chan == IF opens THEN "connected" ELSE pollClient.chan
           after == IF chan # "none" /\ 0 \in Range(ms) THEN "established" ELSE chan
<1>1. /\ pollLoop[1].at = "poll" /\ pollPolls[k].at = "answered"
      /\ pollPolls' = [pollPolls EXCEPT ![k] = Poll!NoPoll]
      /\ pollLoop' = [pollLoop EXCEPT ![1] = [at |-> IF pollClient.stop THEN "off" ELSE "sleep", poll |-> 0]]
      /\ pollClient' = [pollClient EXCEPT !.abort = 0, !.chan = after]
      /\ pollGot' = IF after = "established" THEN [pollGot EXCEPT !.client = @ \o ms] ELSE pollGot
      /\ UNCHANGED <<pollConn, pollSChan, pollCuts>>
  BY DEF Poll!Response, Poll!None, Poll!Ended, Poll!Opens, Poll!Range, Range
<1>2. \/ opens /\ pollSent' = [pollSent EXCEPT !.posts = @ + 1]
      \/ UNCHANGED <<pollPosts, pollSent>>
  BY DEF Poll!Response, Poll!Opens
<1>3. /\ pollPolls \in [Poll!Polls -> PollRecords] /\ k \in Poll!Polls /\ pollPolls[k].live /\ ms \in Lists
      /\ pollGot.client \in Lists
  BY <1>1 DEF PollsInv, PollTyped, OneAwaited, PollRecords
<1>4. pollSent'.server = pollSent.server /\ pollSent.server \in Nat
  BY <1>2 DEF PollsInv, PollTyped
<1>5. /\ pollClient'.chan = after /\ pollClient'.stop = pollClient.stop /\ pollClient'.polling = pollClient.polling
      /\ pollClient'.starts = pollClient.starts
  <2>1. pollClient \in PollClients
    BY DEF PollsInv, PollTyped
  <2>2. QED
    BY <1>1, <2>1 DEF PollClients
<1>6. SUFFICES ASSUME PollRuns PROVE AllAwaited' /\ PollTold' /\ Covered'
  BY <1>1, <1>5 DEF PollsKept, PollRuns
<1>7. AllAwaited /\ PollTold /\ Covered /\ \A j \in Poll!Polls : j # k => pollPolls[j].at = "none"
  BY <1>3, <1>6, NoOther DEF PollsKept
<1>8. \A j \in Poll!Polls : pollPolls'[j].at = "none"
  BY <1>1, <1>3, <1>7 DEF Poll!NoPoll
<1>9. pollClient.chan # "none" => after # "none"
  OBVIOUS
<1>10. opens => after # "none"
  OBVIOUS
<1>11. AllAwaited'
  <2>1. pollLoop \in [{1} -> [at : {"off", "sleep", "poll"}, poll : 0 .. PollLast]]
    BY DEF PollsInv, PollTyped
  <2>2. pollLoop'[1].at = "sleep"
    BY <1>1, <1>7, <2>1 DEF AllAwaited
  <2>3. pollPosts' # {} \/ pollSChan' = "established" => pollClient'.chan # "none"
    BY <1>1, <1>2, <1>5, <1>7, <1>9, <1>10 DEF AllAwaited
  <2>4. QED
    BY <1>1, <1>5, <1>7, <1>8, <2>2, <2>3 DEF AllAwaited
<1>12. Holds(ms, 0) => 0 \in Range(ms)
  BY DEF Holds, Range
<1>13. \/ after = "established"
       \/ ms = <<>> /\ (NothingSent \/ (AnsweredFirst /\ Holds(pollConn.queue, 0)))
  <2>1. CASE pollClient.chan = "established"
    BY <2>1
  <2>2. CASE NothingSent
    <3>1. ms = <<>>
      BY <1>1, <1>3, <2>2 DEF NothingSent
    <3>2. QED
      BY <2>2, <3>1
  <2>3. CASE AnsweredFirst /\ \E j \in Poll!Polls : Has(j, 0)
    <3>1. Has(k, 0)
      BY <1>7, <2>3 DEF Has
    <3>2. pollClient.chan # "none"
      BY <1>7, <2>3 DEF AnsweredFirst, AllAwaited
    <3>3. QED
      BY <1>12, <3>1, <3>2 DEF Has
  <2>4. CASE AnsweredFirst /\ ~ \E j \in Poll!Polls : Has(j, 0)
    BY <1>1, <1>3, <2>4 DEF AnsweredFirst
  <2>5. QED
    BY <1>7, <2>1, <2>2, <2>3, <2>4 DEF PollTold
<1>14. PollTold'
  <2>1. CASE after = "established"
    BY <1>5, <2>1 DEF PollTold
  <2>2. CASE NothingSent
    BY <1>1, <1>4, <1>8, <2>2 DEF PollTold, NothingSent
  <2>3. CASE AnsweredFirst /\ Holds(pollConn.queue, 0)
    BY <1>1, <1>8, <2>3 DEF PollTold, AnsweredFirst
  <2>4. QED
    BY <1>13, <2>1, <2>2, <2>3
<1>15. \A m : Holds(pollGot.client, m) \/ Holds(ms, m) => Holds(pollGot.client \o ms, m)
  BY <1>3, ListsJoined
<1>16. \A m : Holds(pollGot.client, m) \/ Holds(ms, m) => Holds(pollGot'.client, m)
  <2>1. CASE after = "established"
    <3>1. pollGot'.client = pollGot.client \o ms
      BY <1>1, <2>1 DEF PollsInv, PollTyped
    <3>2. QED
      BY <1>15, <3>1
  <2>2. CASE after # "established"
    BY <1>1, <1>13, <2>2 DEF Holds
  <2>3. QED
    BY <2>1, <2>2
<1>17. \A j \in Poll!Polls : \A m : Has(j, m) => Holds(ms, m)
  BY <1>7 DEF Has
<1>18. Covered'
  BY <1>1, <1>4, <1>7, <1>16, <1>17 DEF Covered
<1>19. QED
  BY <1>11, <1>14, <1>18

(* A POST changes nothing of what the server sent.                         *)
LEMMA KeptClientSends ==
  ASSUME PollsInv, PollsKept, pollClient.starts # 0, Poll!ClientSends PROVE PollsKept'
<1>1. pollClient.chan = "established" /\ pollSent'.server = pollSent.server
      /\ UNCHANGED <<pollClient, pollLoop, pollPolls, pollConn, pollSChan, pollGot, pollCuts>>
  BY DEF Poll!ClientSends, PollsInv, PollTyped
<1>2. AllAwaited => AllAwaited'
  BY <1>1 DEF AllAwaited
<1>3. PollTold'
  BY <1>1 DEF PollTold
<1>4. Covered => Covered'
  BY <1>1 DEF Covered, Has
<1>5. QED
  BY <1>1, <1>2, <1>3, <1>4 DEF PollsKept, PollRuns

(* The steps of the server keep it.                                        *)
LEMMA KeptComes ==
  ASSUME PollBounds, PollsInv, PollsKept, pollClient.starts # 0, NEW k \in Poll!Polls, Poll!PollArrives(k)
  PROVE  PollsKept'
<1> DEFINE c == IF pollConn.there THEN pollConn ELSE [Poll!NoConn EXCEPT !.there = TRUE]
           p == [pollPolls EXCEPT ![k].new = ~ pollConn.there]
<1>1. /\ pollPolls[k].at = "sent"
      /\ pollSChan' = IF pollConn.there THEN pollSChan ELSE "connected"
      /\ UNCHANGED <<pollClient, pollLoop, pollPosts, pollSent, pollGot, pollCuts>>
  BY DEF Poll!PollArrives
<1>2. /\ pollPolls \in [Poll!Polls -> PollRecords] /\ pollConn \in PollConns /\ pollConn.queue \in Lists
      /\ pollSent.server \in Nat /\ pollConn.there \in BOOLEAN
  BY DEF PollsInv, PollTyped, PollConns
<1>3. SUFFICES ASSUME PollRuns PROVE PollsKept'
  BY <1>1 DEF PollsKept, PollRuns
<1>4. AllAwaited /\ PollTold /\ Covered /\ pollPolls[k].live
  BY <1>1, <1>3 DEF PollsKept, AllAwaited
<1>5. \A j \in Poll!Polls : j # k => pollPolls[j].at = "none"
  BY <1>3, <1>4, NoOther
<1>6. c.queue = pollConn.queue
  BY <1>4 DEF AllAwaited, Poll!NoConn
<1>7. /\ p \in [Poll!Polls -> PollRecords] /\ p[k].live = pollPolls[k].live
      /\ \A j \in Poll!Polls : j # k => p[j] = pollPolls[j]
  <2>1. [pollPolls[k] EXCEPT !.new = ~ pollConn.there] \in PollRecords
        /\ [pollPolls[k] EXCEPT !.new = ~ pollConn.there].live = pollPolls[k].live
    BY <1>2 DEF PollRecords
  <2>2. QED
    BY <1>2, <2>1
<1>8. pollPosts' # {} \/ pollSChan' = "established" => pollClient.chan # "none"
  BY <1>1, <1>4 DEF AllAwaited
<1>9. CASE pollConn.queue # <<>>
  <2>1. pollConn.there /\ c = pollConn
    BY <1>4, <1>9 DEF AllAwaited
  <2>2. pollPolls' = Poll!Answered(p, k, pollConn.queue) /\ pollConn' = [pollConn EXCEPT !.queue = <<>>]
    BY <1>9, <2>1 DEF Poll!PollArrives, Poll!Drained
  <2>3. /\ \A j \in Poll!Polls : j # k => pollPolls'[j] = p[j]
        /\ pollPolls'[k].live = p[k].live
        /\ pollPolls'[k].live => pollPolls'[k].at = "answered" /\ pollPolls'[k].messages = pollConn.queue
    <3> HIDE DEF p
    <3>1. QED
      BY <1>2, <1>7, <2>2, PollAnswers
  <2>4. pollConn'.queue = <<>> /\ pollConn'.there = TRUE
    BY <1>2, <2>1, <2>2 DEF PollConns
  <2>5. \/ pollClient.chan = "established"
        \/ pollSChan' = "established" /\ Holds(pollConn.queue, 0)
    <3>1. ~ NothingSent
      BY <1>9 DEF NothingSent
    <3>2. \A j \in Poll!Polls : ~ Has(j, 0)
      BY <1>1, <1>5 DEF Has
    <3>3. QED
      BY <1>1, <1>4, <2>1, <3>1, <3>2 DEF PollTold, AnsweredFirst
  <2>6. \A j \in Poll!Polls : j # k => pollPolls'[j] = pollPolls[j]
    BY <1>7, <2>3
  <2>7. pollPolls'[k].live = pollPolls[k].live
    BY <1>7, <2>3
  <2>8. \A m \in 1 .. pollSent.server : m <= pollSent.server
    BY <1>2
  <2>9. QED
    BY <1>1, <1>2, <1>3, <1>8, <2>3, <2>4, <2>5, <2>6, <2>7, <2>8, AnswerKeeps
<1>10. CASE pollConn.queue = <<>>
  <2>1. /\ pollPolls' = [p EXCEPT ![k].at = "held"]
        /\ pollConn' = [there |-> TRUE, queue |-> <<>>, resolver |-> k,
                        timers |-> c.timers \cup {k}, timeout |-> k]
    BY <1>6, <1>10 DEF Poll!PollArrives
  <2>2. [p[k] EXCEPT !.at = "held"].live = p[k].live /\ [p[k] EXCEPT !.at = "held"].at = "held"
    BY <1>7 DEF PollRecords
  <2>3. /\ pollPolls'[k].at = "held" /\ pollPolls'[k].live = pollPolls[k].live
        /\ \A j \in Poll!Polls : j # k => pollPolls'[j] = pollPolls[j]
    BY <1>7, <2>1, <2>2
  <2>4. \A j \in Poll!Polls : j # k => pollPolls'[j].at = "none"
    BY <1>5, <2>3
  <2>5. AllAwaited'
    BY <1>1, <1>4, <1>8, <2>1, <2>3, <2>4 DEF AllAwaited
  <2>6. \A j \in Poll!Polls : \A m : ~ Has(j, m) /\ ~ Has(j, m)'
    BY <1>1, <1>5, <2>3, <2>4 DEF Has
  <2>7. ~ \E m : Holds(pollConn.queue, m)
    BY <1>10 DEF Holds
  <2>8. PollTold'
    <3>1. CASE pollClient.chan = "established"
      BY <1>1, <3>1 DEF PollTold
    <3>2. CASE NothingSent
      <4>1. pollSChan' # "established"
        BY <1>1, <3>2 DEF NothingSent
      <4>2. QED
        BY <1>1, <2>1, <2>3, <2>4, <3>2, <4>1 DEF PollTold, NothingSent
    <3>3. ~ AnsweredFirst
      BY <2>6, <2>7 DEF AnsweredFirst
    <3>4. QED
      BY <1>4, <3>1, <3>2, <3>3 DEF PollTold
  <2>9. Covered'
    BY <1>1, <1>4, <2>6, <2>7 DEF Covered
  <2>10. QED
    BY <1>1, <1>4, <2>5, <2>8, <2>9 DEF PollsKept, AllAwaited
<1>11. QED
  BY <1>9, <1>10

(* A poll whose time is over is answered, with nothing.                    *)
LEMMA KeptTimer ==
  ASSUME PollBounds, PollsInv, PollsKept, pollClient.starts # 0, NEW k \in Poll!Polls, Poll!TimerFires(k)
  PROVE  PollsKept'
<1>1. /\ k \in pollConn.timers /\ pollPolls[k].at = "held" /\ pollConn \in PollConns
      /\ UNCHANGED <<pollClient, pollLoop, pollSChan, pollPosts, pollSent, pollGot, pollCuts>>
  BY DEF Poll!TimerFires, PollsInv, HeldPolls, PollTyped
<1>2. SUFFICES ASSUME PollRuns PROVE PollsKept'
  BY <1>1 DEF PollsKept, PollRuns
<1>3. AllAwaited /\ PollTold /\ Covered /\ pollPolls[k].live /\ pollConn.resolver = k
  BY <1>1, <1>2 DEF PollsKept, AllAwaited
<1>4. k # 0 /\ pollPolls \in [Poll!Polls -> PollRecords] /\ pollSent.server \in Nat
  BY DEF Poll!Polls, PollsInv, PollTyped
<1>5. /\ pollConn.queue = <<>> /\ pollPolls' = Poll!Answered(pollPolls, k, <<>>)
      /\ pollConn'.queue = <<>> /\ pollConn'.there = pollConn.there
  BY <1>3, <1>4 DEF Poll!TimerFires, Poll!None, Poll!Drained, PollsInv, HeldPolls
<1>6. /\ \A j \in Poll!Polls : j # k => pollPolls'[j] = pollPolls[j]
      /\ pollPolls'[k].live = pollPolls[k].live
      /\ pollPolls'[k].live => pollPolls'[k].at = "answered" /\ pollPolls'[k].messages = <<>>
  BY <1>4, <1>5, NoMessages, PollAnswers
<1>7. \A m \in Nat : ~ Holds(pollConn.queue, m)
  BY <1>5 DEF Holds
<1>8. \A j \in Poll!Polls : j # k => pollPolls[j].at = "none"
  BY <1>2, <1>3, NoOther
<1>9. \/ pollClient.chan = "established"
      \/ pollSChan' # "established" /\ pollSent'.server = 0
  <2>1. ~ AnsweredFirst
    BY <1>1, <1>7, <1>8 DEF AnsweredFirst, Has
  <2>2. QED
    BY <1>1, <1>3, <2>1 DEF PollTold, NothingSent
<1>10. pollPosts' # {} \/ pollSChan' = "established" => pollClient.chan # "none"
  BY <1>1, <1>3 DEF AllAwaited
<1>11. \A m \in 1 .. pollSent.server : m <= pollSent.server
  BY <1>4
<1>12. ~ pollConn'.there => pollSChan' = "none"
  BY <1>1, <1>3, <1>5 DEF AllAwaited
<1>13. QED
  BY <1>1, <1>2, <1>4, <1>5, <1>6, <1>7, <1>9, <1>10, <1>11, <1>12, NoMessages, AnswerKeeps

(* A POST that arrives: the hand shake's, or data.                         *)
LEMMA KeptPostArrives ==
  ASSUME PollBounds, PollsInv, PollsKept, pollClient.starts # 0, NEW p \in pollPosts, Poll!PostArrives(p)
  PROVE  PollsKept'
<1>1. /\ \/ /\ pollConn.there /\ pollSChan' = "established"
            /\ pollConn' = Poll!Enqueued(0).conn /\ pollPolls' = Poll!Enqueued(0).polls
         \/ UNCHANGED <<pollSChan, pollConn, pollPolls>>
      /\ UNCHANGED <<pollClient, pollLoop, pollSent, pollCuts>>
  BY DEF Poll!PostArrives
<1>2. pollConn \in PollConns /\ pollGot'.client = pollGot.client /\ pollSent.server \in Nat
      /\ pollPolls \in [Poll!Polls -> PollRecords] /\ pollConn.queue \in Lists
  BY DEF Poll!PostArrives, PollsInv, PollTyped, PollConns
<1>3. SUFFICES ASSUME PollRuns PROVE PollsKept'
  BY <1>1 DEF PollsKept, PollRuns
<1>4. AllAwaited /\ PollTold /\ Covered /\ pollClient.chan # "none"
  BY <1>3 DEF PollsKept, AllAwaited
<1>5. CASE UNCHANGED <<pollSChan, pollConn, pollPolls>>
  <2>1. AllAwaited'
    BY <1>1, <1>4, <1>5 DEF AllAwaited
  <2>2. PollTold'
    BY <1>1, <1>4, <1>5 DEF PollTold, NothingSent, AnsweredFirst, Has
  <2>3. Covered'
    BY <1>1, <1>2, <1>4, <1>5 DEF Covered, Has
  <2>4. QED
    BY <1>1, <1>4, <2>1, <2>2, <2>3 DEF PollsKept, AllAwaited
<1>6. CASE pollConn.there /\ pollSChan' = "established" /\ pollConn.resolver = 0
           /\ pollConn' = Poll!Enqueued(0).conn /\ pollPolls' = Poll!Enqueued(0).polls
  <2>1. pollConn' = [pollConn EXCEPT !.queue = Append(pollConn.queue, 0)] /\ pollPolls' = pollPolls
    BY <1>6 DEF Poll!Enqueued, Poll!None
  <2>2. /\ pollConn'.queue = Append(pollConn.queue, 0) /\ pollConn'.there = pollConn.there
        /\ pollConn'.resolver = pollConn.resolver
    BY <1>2, <2>1 DEF PollConns
  <2>3. AllAwaited'
    BY <1>1, <1>4, <1>6, <2>1, <2>2 DEF AllAwaited
  <2>4. Holds(pollConn'.queue, 0) /\ \A m : Holds(pollConn.queue, m) => Holds(pollConn'.queue, m)
    BY <1>2, <2>2, HoldsAppended DEF PollBounds
  <2>5. PollTold'
    <3>1. CASE pollClient.chan = "established"
      BY <1>1, <3>1 DEF PollTold
    <3>2. CASE \A j \in Poll!Polls : pollPolls[j].at = "answered" => pollPolls[j].messages = <<>>
      BY <1>6, <2>1, <2>4, <3>2 DEF PollTold, AnsweredFirst
    <3>3. CASE \E j \in Poll!Polls : Has(j, 0)
      BY <1>6, <2>1, <3>3 DEF PollTold, AnsweredFirst, Has
    <3>4. QED
      BY <1>4, <3>1, <3>2, <3>3 DEF PollTold, AnsweredFirst, NothingSent
  <2>6. Covered'
    BY <1>1, <1>2, <1>4, <2>1, <2>4 DEF Covered, Has
  <2>7. QED
    BY <1>1, <1>4, <2>3, <2>5, <2>6 DEF PollsKept, AllAwaited
<1>7. CASE pollConn.there /\ pollSChan' = "established" /\ pollConn.resolver # 0
           /\ pollConn' = Poll!Enqueued(0).conn /\ pollPolls' = Poll!Enqueued(0).polls
  <2> DEFINE k == pollConn.resolver
  <2>1. /\ k \in Poll!Polls /\ pollPolls[k].at = "held" /\ pollConn.queue = <<>> /\ <<0>> \in Lists
        /\ pollPolls' = Poll!Answered(pollPolls, k, <<0>>)
        /\ pollConn'.queue = <<>> /\ pollConn'.there = pollConn.there
    <3>1. 0 \in 0 .. PollData
      BY DEF PollBounds
    <3>2. QED
      BY <1>7, <3>1, ResolverAnswers
  <2>2. /\ \A j \in Poll!Polls : j # k => pollPolls'[j] = pollPolls[j]
        /\ pollPolls'[k].live = pollPolls[k].live
        /\ pollPolls'[k].live => pollPolls'[k].at = "answered" /\ pollPolls'[k].messages = <<0>>
    BY <1>2, <2>1, PollAnswers
  <2>3. Holds(<<0>>, 0) /\ \A m \in Nat : ~ Holds(pollConn.queue, m)
    BY <2>1 DEF Holds
  <2>4. \A m \in 1 .. pollSent.server : m <= pollSent.server
    BY <1>2
  <2>5. QED
    BY <1>1, <1>2, <1>3, <1>4, <1>7, <2>1, <2>2, <2>3, <2>4, AnswerKeeps
<1>8. QED
  BY <1>1, <1>5, <1>6, <1>7

(* A POST that fails is no concern of the polls.                           *)
LEMMA KeptPostFails ==
  ASSUME PollsInv, PollsKept, pollClient.starts # 0, NEW p \in pollPosts, Poll!PostFails(p) PROVE PollsKept'
<1>1. UNCHANGED <<pollClient, pollLoop, pollPolls, pollConn, pollSChan, pollSent, pollGot, pollCuts>>
  BY DEF Poll!PostFails
<1>2. AllAwaited => AllAwaited'
  BY <1>1 DEF AllAwaited
<1>3. (PollTold => PollTold') /\ (Covered => Covered')
  BY <1>1 DEF PollTold, NothingSent, AnsweredFirst, Covered, Has
<1>4. QED
  BY <1>1, <1>2, <1>3 DEF PollsKept, PollRuns

(* What is sent answers the poll that waits, or is queued.                 *)
LEMMA KeptServerSends ==
  ASSUME PollBounds, PollsInv, PollsKept, pollClient.starts # 0, Poll!ServerSends PROVE PollsKept'
<1> DEFINE n == pollSent.server + 1
<1>1. /\ pollSChan = "established" /\ pollSent.server < PollData
      /\ pollSent' = [pollSent EXCEPT !.server = @ + 1]
      /\ pollConn' = Poll!Enqueued(n).conn /\ pollPolls' = Poll!Enqueued(n).polls
      /\ UNCHANGED <<pollClient, pollLoop, pollSChan, pollPosts, pollGot, pollCuts>>
  BY DEF Poll!ServerSends
<1>2. pollConn \in PollConns /\ pollSent \in [posts : Nat, client : 0 .. PollData, server : 0 .. PollData]
      /\ pollPolls \in [Poll!Polls -> PollRecords] /\ pollConn.queue \in Lists
  BY DEF PollsInv, PollTyped, PollConns
<1>3. n \in 0 .. PollData /\ pollSent'.server = n /\ pollSent.server \in Nat
  BY <1>1, <1>2 DEF PollBounds
<1>4. SUFFICES ASSUME PollRuns PROVE PollsKept'
  BY <1>1 DEF PollsKept, PollRuns
<1>5. AllAwaited /\ PollTold /\ Covered /\ pollClient.chan # "none"
  BY <1>1, <1>4 DEF PollsKept, AllAwaited
<1>6. ~ NothingSent
  BY <1>1 DEF NothingSent
<1>7. CASE pollConn.resolver = 0
  <2>1. pollConn' = [pollConn EXCEPT !.queue = Append(pollConn.queue, n)] /\ pollPolls' = pollPolls
    BY <1>1, <1>7 DEF Poll!Enqueued, Poll!None
  <2>2. /\ pollConn'.queue = Append(pollConn.queue, n) /\ pollConn'.there = pollConn.there
        /\ pollConn'.resolver = pollConn.resolver
    BY <1>2, <2>1 DEF PollConns
  <2>3. pollConn.there
    BY <1>1, <1>5 DEF AllAwaited
  <2>4. AllAwaited'
    BY <1>1, <1>5, <2>1, <2>2, <2>3 DEF AllAwaited
  <2>5. Holds(pollConn'.queue, n) /\ \A m : Holds(pollConn.queue, m) => Holds(pollConn'.queue, m)
    BY <1>2, <1>3, <2>2, HoldsAppended
  <2>6. PollTold'
    BY <1>1, <1>5, <1>6, <2>1, <2>5 DEF PollTold, AnsweredFirst, Has
  <2>7. Covered'
    <3>1. \A m \in 1 .. n : m \in 1 .. pollSent.server \/ m = n
      BY <1>3
    <3>2. QED
      BY <1>1, <1>3, <1>5, <2>1, <2>5, <3>1 DEF Covered, Has
  <2>8. QED
    BY <1>1, <1>5, <2>4, <2>6, <2>7 DEF PollsKept, AllAwaited
<1>8. CASE pollConn.resolver # 0
  <2> DEFINE k == pollConn.resolver
  <2>1. /\ k \in Poll!Polls /\ pollPolls[k].at = "held" /\ pollConn.queue = <<>> /\ <<n>> \in Lists
        /\ pollPolls' = Poll!Answered(pollPolls, k, <<n>>)
        /\ pollConn'.queue = <<>> /\ pollConn'.there = pollConn.there
    BY <1>1, <1>2, <1>3, <1>8, ResolverAnswers
  <2>2. /\ \A j \in Poll!Polls : j # k => pollPolls'[j] = pollPolls[j]
        /\ pollPolls'[k].live = pollPolls[k].live
        /\ pollPolls'[k].live => pollPolls'[k].at = "answered" /\ pollPolls'[k].messages = <<n>>
    BY <1>2, <2>1, PollAnswers
  <2>3. Holds(<<n>>, n) /\ \A m \in Nat : ~ Holds(pollConn.queue, m)
    BY <2>1 DEF Holds
  <2>4. \A m \in 1 .. n : m <= pollSent.server \/ Holds(<<n>>, m)
    BY <1>3, <2>3
  <2>5. pollClient.chan = "established"
    <3>1. \A j \in Poll!Polls : ~ Has(j, 0)
      <4>1. pollPolls[k].live
        BY <1>5, <2>1 DEF AllAwaited
      <4>2. \A j \in Poll!Polls : j # k => pollPolls[j].at = "none"
        BY <1>4, <2>1, <4>1, NoOther
      <4>3. QED
        BY <2>1, <4>2 DEF Has
    <3>2. QED
      BY <1>5, <1>6, <2>3, <3>1 DEF PollTold, AnsweredFirst
  <2>6. pollConn.there
    BY <1>1, <1>5 DEF AllAwaited
  <2> HIDE DEF n
  <2>7. QED
    BY <1>1, <1>3, <1>4, <1>5, <2>1, <2>2, <2>3, <2>4, <2>5, <2>6, AnswerKeeps
<1>9. QED
  BY <1>7, <1>8

(* While the client polls there is a poll that waits or comes.             *)
LEMMA KeptCleanup ==
  ASSUME PollsInv, PollsKept, pollClient.starts # 0, Poll!Cleanup PROVE PollsKept'
<1>1. Poll!Idle /\ UNCHANGED <<pollClient, pollCuts>>
  BY DEF Poll!Cleanup
<1>2. ASSUME PollRuns PROVE FALSE
  <2>1. AllAwaited /\ pollLoop[1].at \in {"off", "sleep", "poll"}
    BY <1>2 DEF PollsKept, PollsInv, PollTyped
  <2>2. pollLoop[1].at = "poll" /\ pollLoop[1].poll \in Poll!Polls /\ pollPolls[pollLoop[1].poll].live
    BY <1>1, <2>1 DEF AllAwaited, Poll!Idle, Poll!Loops, PollsInv, OneAwaited
  <2>3. pollPolls[pollLoop[1].poll].at = "held" /\ pollLoop[1].poll # 0
    BY <1>1, <2>2 DEF Poll!Idle, Poll!Polls
  <2>4. pollConn.resolver = pollLoop[1].poll
    BY <2>1, <2>2, <2>3 DEF AllAwaited
  <2>5. pollConn.resolver # 0 /\ pollConn.timers # {}
    BY <2>3, <2>4 DEF PollsInv, HeldPolls
  <2>6. QED
    BY <1>1, <2>5 DEF Poll!Idle, Poll!None
<1>3. QED
  BY <1>1, <1>2 DEF PollsKept, PollRuns

(* The inductive invariant.                                                *)
PollInv == PollsInv /\ PollsKept

(* Each step of the link keeps both parts.                                 *)
LEMMA PollStep == ASSUME PollBounds, PollInv, Poll!Next PROVE PollInv'
<1>1. Poll!Loops = {1}
  BY DEF Poll!Loops
<1>2. pollConn.timers \subseteq Poll!Polls
  BY DEF PollInv, PollsInv, PollTyped, PollConns
<1>3. CASE pollClient.starts = 0
  BY <1>3, PollIdle, PollStarts, KeptStarts DEF PollInv
<1>4. CASE pollClient.starts # 0
  <2> USE <1>4 DEF PollInv
  <2>1. CASE Poll!Start
    BY <2>1, PollStarts, KeptStarts
  <2>2. CASE Poll!Stop
    BY <2>2, PollStops, KeptStops
  <2>3. CASE Poll!Wake(1)
    BY <2>3, PollWakes, KeptWakes
  <2>4. CASE Poll!Response(1)
    BY <2>4, PollResponds, KeptResponds
  <2>5. CASE Poll!Cut(1)
    BY <2>5, PollCut, KeptCut
  <2>6. CASE Poll!ClientSends
    BY <2>6, PollClientSends, KeptClientSends
  <2>7. ASSUME NEW k \in Poll!Polls, Poll!PollArrives(k) PROVE PollInv'
    BY <2>7, PollComes, KeptComes
  <2>8. ASSUME NEW k \in Poll!Polls, Poll!TimerFires(k) PROVE PollInv'
    BY <2>8, PollTimer, KeptTimer
  <2>9. ASSUME NEW p \in pollPosts, Poll!PostArrives(p) PROVE PollInv'
    BY <2>9, PollPostArrives, KeptPostArrives
  <2>10. ASSUME NEW p \in pollPosts, Poll!PostFails(p) PROVE PollInv'
    BY <2>10, PollPostFails, KeptPostFails
  <2>11. CASE Poll!ServerSends
    BY <2>11, PollServerSends, KeptServerSends
  <2>12. CASE Poll!Cleanup
    BY <2>12, PollCleanup, KeptCleanup
  <2>13. QED
    BY <1>1, <2>1, <2>2, <2>3, <2>4, <2>5, <2>6, <2>7, <2>8, <2>9, <2>10, <2>11, <2>12 DEF Poll!Next
<1>5. QED
  BY <1>3, <1>4

(* What the run checks of the link.                                        *)
LEMMA PollGives == ASSUME PollInv PROVE Poll!NothingLost /\ Poll!InOrderOnce
<1>1. pollSent.server \in Nat /\ pollGot.client \in Lists
  BY DEF PollInv, PollsInv, PollTyped
<1>2. Poll!InOrderOnce
  <2>1. Ascending(pollGot.client) /\ pollGot.client \in Lists
    BY DEF PollInv, PollsInv, PollTyped, PollOrder
  <2>2. QED
    BY <2>1 DEF Ascending, Poll!InOrderOnce
<1>3. ASSUME PollRuns
      PROVE  1 .. pollSent.server \subseteq Range(pollGot.client) \cup Poll!UnderWay \cup Range(pollConn.queue)
  <2>1. Covered
    BY <1>3 DEF PollInv, PollsKept
  <2> SUFFICES ASSUME NEW m \in 1 .. pollSent.server
               PROVE  m \in Range(pollGot.client) \cup Poll!UnderWay \cup Range(pollConn.queue)
    OBVIOUS
  <2>2. Holds(pollGot.client, m) => m \in Range(pollGot.client)
    BY DEF Holds, Range
  <2>3. Holds(pollConn.queue, m) => m \in Range(pollConn.queue)
    BY DEF Holds, Range
  <2>4. ASSUME NEW k \in Poll!Polls, Has(k, m) PROVE m \in Poll!UnderWay
    BY <2>4 DEF Holds, Has, Range, Poll!UnderWay, Poll!Range
  <2>5. QED
    BY <2>1, <2>2, <2>3, <2>4 DEF Covered
<1>4. QED
  BY <1>2, <1>3 DEF PollRuns, Poll!NothingLost, Poll!Range, Range

(* So it does for every behaviour of the link.                             *)
LEMMA PollSound == ASSUME PollBounds PROVE Poll!Spec => [](Poll!NothingLost /\ Poll!InOrderOnce)
<1>1. PollInv /\ UNCHANGED Poll!vars => PollInv'
  <2> SUFFICES ASSUME PollInv, UNCHANGED Poll!vars PROVE PollInv'
    OBVIOUS
  <2>1. PollsInv'
    BY DEF Poll!vars, PollInv, PollsInv, PollTyped, OneAwaited, HeldPolls, PollOrder, Coming, Issued
  <2>2. PollsKept'
    BY DEF Poll!vars, PollInv, PollsKept, PollRuns, PollTold, NothingSent, AnsweredFirst, Covered, AllAwaited, Has, Poll!Init
  <2>3. QED
    BY <2>1, <2>2 DEF PollInv
<1>2. Poll!Init => PollInv
  BY PollStart, PollKeptFirst DEF PollInv
<1>3. QED
  BY <1>1, <1>2, PollStep, PollGives, PTL DEF Poll!Spec


-----------------------------------------------------------------------------
(* What listeners hear of a WebSocket client.                              *)

Ev == INSTANCE WsEvents WITH
  Waits <- EvWaits, MaxSteps <- EvSteps, Risks <- {}, got <- evGot

(* The values of the state.                                                *)
EvTyped ==
  /\ status \in Ev!Statuses /\ heard \in Ev!Statuses
  /\ connected \in BOOLEAN /\ ready \in BOOLEAN
  /\ wait \in [EvWaits -> Ev!Statuses \cup {""}]
  /\ met \in [EvWaits -> SUBSET Ev!Statuses]
  /\ evGot \in [EvWaits -> Ev!Statuses \cup {"", "timeout"}]
(* A transition is heard of before the next is made.                       *)
OnePending == (pending = <<>> /\ heard = status) \/ pending = <<<<heard, status>>>>
(* The client was connected before: listeners know that it was ready, or   *)
(* will hear it next.                                                      *)
ReadyKnown ==
  /\ connected => ready \/ (pending # <<>> /\ status = "ready")
  /\ pending # <<>> /\ status = "ready" => heard = "connected"
  /\ falsely = FALSE
(* A wait whose status has come is resolved by the transition that is      *)
(* pending.                                                                *)
WaitsKept ==
  \A w \in EvWaits :
    /\ evGot[w] \in met[w] \cup {"", "timeout"}
    /\ Ev!Waiting(w) /\ pending # <<>> => status \in met[w]
    /\ Ev!Waiting(w) /\ wait[w] \in met[w] => pending # <<>> /\ status = wait[w]
(* The inductive invariant.                                                *)
EvInv == EvTyped /\ OnePending /\ ReadyKnown /\ WaitsKept

(* At first nothing is pending and nobody waits.                           *)
LEMMA EvStart == ASSUME Ev!Init PROVE EvInv
BY DEF Ev!Init, EvInv, EvTyped, OnePending, ReadyKnown, WaitsKept, Ev!Waiting, Ev!Statuses

(* A transition is made when none is pending.                              *)
LEMMA EvMoves ==
  ASSUME EvInv, pending = <<>>, NEW to \in Ev!Statuses, Ev!Along(<<status, to>>),
         connected' \in BOOLEAN, ready' \in BOOLEAN,
         connected' => ready' \/ to = "ready", to = "ready" => status = "connected"
  PROVE  EvInv'
<1> DEFINE path == <<status, to>>
<1>1. /\ Len(path) = 2 /\ path[1] = status /\ path[2] = to /\ path[Len(path)] = to
      /\ Len(path) - 1 = 1
  OBVIOUS
<1>2. /\ status' = path[Len(path)] /\ steps' = steps + Len(path) - 1
      /\ pending' = pending \o [i \in 1 .. Len(path) - 1 |-> <<path[i], path[i + 1]>>]
      /\ met' = [w \in EvWaits |-> IF Ev!Waiting(w) THEN met[w] \cup {path[i] : i \in 2 .. Len(path)} ELSE met[w]]
      /\ UNCHANGED <<heard, falsely, wait, evGot>>
  BY DEF Ev!Along
<1>3. [i \in 1 .. Len(path) - 1 |-> <<path[i], path[i + 1]>>] = <<<<status, to>>>>
  BY <1>1
<1>4. pending' = <<<<status, to>>>> /\ status' = to /\ heard = status
  <2>1. <<>> \o <<<<status, to>>>> = <<<<status, to>>>>
    OBVIOUS
  <2>2. pending' = <<<<status, to>>>> /\ status' = to
    BY <1>1, <1>2, <1>3, <2>1
  <2>3. heard = status
    BY DEF EvInv, OnePending
  <2>4. QED
    BY <2>2, <2>3
<1>5. {path[i] : i \in 2 .. Len(path)} = {to}
  BY <1>1
<1>6. met' = [w \in EvWaits |-> IF Ev!Waiting(w) THEN met[w] \cup {to} ELSE met[w]]
  BY <1>2, <1>5
<1>7. EvTyped'
  <2>2. met' \in [EvWaits -> SUBSET Ev!Statuses]
    BY <1>6 DEF EvInv, EvTyped
  <2>3. QED
    BY <1>2, <1>4, <2>2 DEF EvInv, EvTyped
<1>8. pending' # <<>>
  BY <1>4
<1>9. OnePending' /\ ReadyKnown'
  BY <1>2, <1>4, <1>8 DEF EvInv, OnePending, ReadyKnown
<1>10. WaitsKept'
  <2> SUFFICES ASSUME NEW w \in EvWaits
               PROVE  /\ evGot[w] \in met'[w] \cup {"", "timeout"}
                      /\ Ev!Waiting(w) => to \in met'[w]
                      /\ Ev!Waiting(w) /\ wait[w] \in met'[w] => to = wait[w]
    BY <1>2, <1>4, <1>8 DEF WaitsKept, Ev!Waiting
  <2>1. /\ evGot[w] \in met[w] \cup {"", "timeout"}
        /\ ~ (Ev!Waiting(w) /\ wait[w] \in met[w])
    BY DEF EvInv, WaitsKept
  <2>2. met'[w] = IF Ev!Waiting(w) THEN met[w] \cup {to} ELSE met[w]
    BY <1>6
  <2>3. QED
    BY <2>1, <2>2
<1>11. QED
  BY <1>7, <1>9, <1>10 DEF EvInv

(* Listeners hear of the transition that is pending.                       *)
LEMMA EvDelivers == ASSUME EvInv, Ev!Deliver PROVE EvInv'
<1>1. pending = <<<<heard, status>>>> /\ pending # <<>>
  BY DEF Ev!Deliver, EvInv, OnePending
<1>2. /\ pending' = <<>>
      /\ heard' = pending[Len(pending)][2]
      /\ falsely' = (falsely \/ \E i \in DOMAIN pending : Ev!Reconnected(pending[i]) /\
                       ~ (ready \/ \E j \in 1 .. i - 1 : pending[j][2] = "ready"))
      /\ ready' = (ready \/ \E i \in DOMAIN pending : pending[i][2] = "ready")
      /\ evGot' = [w \in EvWaits |-> IF \E i \in DOMAIN pending : Ev!Resolved(pending[i], w) THEN wait[w] ELSE evGot[w]]
      /\ UNCHANGED <<status, connected, wait, met, steps>>
  BY DEF Ev!Deliver
<1>3. /\ Len(pending) = 1 /\ DOMAIN pending = {1} /\ pending[1] = <<heard, status>>
      /\ pending[1][1] = heard /\ pending[1][2] = status
  BY <1>1
<1>4. heard' = status /\ (ready' <=> ready \/ status = "ready") /\ ready' \in BOOLEAN
  BY <1>2, <1>3
<1>5. \A w \in EvWaits : evGot'[w] = IF Ev!Waiting(w) /\ status = wait[w] THEN wait[w] ELSE evGot[w]
  BY <1>2, <1>3 DEF Ev!Resolved
<1>6. evGot' \in [EvWaits -> Ev!Statuses \cup {"", "timeout"}]
  BY <1>2 DEF EvInv, EvTyped
<1>7. EvTyped'
  BY <1>2, <1>4, <1>6 DEF EvInv, EvTyped
<1>8. OnePending'
  BY <1>2, <1>4 DEF OnePending
<1>9. ReadyKnown'
  <2>1. ~ Ev!Reconnected(pending[1]) \/ ready
    BY <1>1, <1>3 DEF EvInv, ReadyKnown, Ev!Reconnected
  <2>2. falsely' = FALSE
    BY <1>2, <1>3, <2>1 DEF EvInv, ReadyKnown
  <2>3. QED
    BY <1>2, <1>4, <2>2 DEF EvInv, ReadyKnown
<1>10. WaitsKept'
  <2> SUFFICES ASSUME NEW w \in EvWaits
               PROVE  /\ evGot'[w] \in met[w] \cup {"", "timeout"}
                      /\ wait[w] # "" /\ evGot'[w] = "" => wait[w] \notin met[w]
    BY <1>2 DEF WaitsKept, Ev!Waiting
  <2>1. /\ evGot[w] \in met[w] \cup {"", "timeout"}
        /\ Ev!Waiting(w) => status \in met[w]
        /\ Ev!Waiting(w) /\ wait[w] \in met[w] => status = wait[w]
    BY <1>1 DEF EvInv, WaitsKept
  <2>2. status # ""
    BY DEF EvInv, EvTyped, Ev!Statuses
  <2>3. QED
    BY <1>5, <2>1, <2>2 DEF Ev!Waiting
<1>11. QED
  BY <1>7, <1>8, <1>9, <1>10 DEF EvInv

(* The application waits for a status, and gives up.                       *)
LEMMA EvWaiting ==
  ASSUME EvInv, NEW w \in EvWaits, NEW s \in Ev!Statuses, Ev!WaitForStatus(w, s) PROVE EvInv'
<1>1. /\ pending = <<>> /\ wait[w] = ""
      /\ wait' = [wait EXCEPT ![w] = s]
      /\ evGot' = [evGot EXCEPT ![w] = IF status = s THEN s ELSE ""]
      /\ met' = [met EXCEPT ![w] = {status}]
      /\ UNCHANGED <<status, pending, connected, heard, ready, falsely, steps>>
  BY DEF Ev!WaitForStatus, Ev!AppMay, Ev!Quiet
<1>2. EvTyped'
  BY <1>1 DEF EvInv, EvTyped
<1>3. OnePending' /\ ReadyKnown'
  BY <1>1 DEF EvInv, OnePending, ReadyKnown
<1>4. s # ""
  BY DEF Ev!Statuses
<1>5. WaitsKept'
  <2> SUFFICES ASSUME NEW v \in EvWaits
               PROVE  /\ evGot'[v] \in met'[v] \cup {"", "timeout"}
                      /\ ~ (wait'[v] # "" /\ evGot'[v] = "" /\ wait'[v] \in met'[v])
    BY <1>1 DEF WaitsKept, Ev!Waiting
  <2>1. evGot[v] \in met[v] \cup {"", "timeout"} /\ ~ (Ev!Waiting(v) /\ wait[v] \in met[v])
    BY <1>1 DEF EvInv, WaitsKept
  <2>2. CASE v = w
    BY <1>1, <1>4, <2>2 DEF EvInv, EvTyped
  <2>3. CASE v # w
    BY <1>1, <2>1, <2>3 DEF EvInv, EvTyped, Ev!Waiting
  <2>4. QED
    BY <2>2, <2>3
<1>6. QED
  BY <1>2, <1>3, <1>5 DEF EvInv

(* A wait whose time is over is no wait any more.                          *)
LEMMA EvTimeout == ASSUME EvInv, NEW w \in EvWaits, Ev!Timeout(w) PROVE EvInv'
<1>1. /\ pending = <<>> /\ evGot' = [evGot EXCEPT ![w] = "timeout"]
      /\ UNCHANGED <<status, pending, connected, heard, ready, falsely, wait, met, steps>>
  BY DEF Ev!Timeout, Ev!Quiet
<1>2. EvTyped'
  BY <1>1 DEF EvInv, EvTyped
<1>3. OnePending' /\ ReadyKnown'
  BY <1>1 DEF EvInv, OnePending, ReadyKnown
<1>4. WaitsKept'
  BY <1>1 DEF EvInv, EvTyped, WaitsKept, Ev!Waiting
<1>5. QED
  BY <1>2, <1>3, <1>4 DEF EvInv

(* Every step keeps the invariant.                                         *)
LEMMA EvStep == ASSUME EvInv, Ev!Next PROVE EvInv'
<1> USE DEF Ev!Quiet, Ev!AppMay
<1>1. CASE Ev!Start
  <2>1. pending = <<>> /\ Ev!Along(<<status, "connecting">>) /\ connected' = FALSE /\ ready' = FALSE
    BY <1>1 DEF Ev!Start
  <2>2. "connecting" \in Ev!Statuses
    BY DEF Ev!Statuses
  <2>3. QED
    BY <2>1, <2>2, EvMoves
<1>2. CASE Ev!Timer \/ Ev!Opened \/ Ev!ScheduleReconnect \/ Ev!Stop
  <2>1. \E to \in Ev!Statuses : to # "ready" /\ Ev!Along(<<status, to>>)
    BY <1>2 DEF Ev!Timer, Ev!Opened, Ev!ScheduleReconnect, Ev!Stop, Ev!Statuses
  <2>2. pending = <<>> /\ UNCHANGED <<connected, ready>>
    BY <1>2 DEF Ev!Timer, Ev!Opened, Ev!ScheduleReconnect, Ev!Stop
  <2>3. connected \in BOOLEAN /\ ready \in BOOLEAN /\ (connected => ready)
    BY <2>2 DEF EvInv, EvTyped, ReadyKnown
  <2>4. QED
    BY <2>1, <2>2, <2>3, EvMoves
<1>3. CASE Ev!HandleServerReady
  <2>1. pending = <<>> /\ status = "connected" /\ connected' = TRUE /\ ready' = ready
        /\ Ev!Along(<<status, "ready">>)
    BY <1>3 DEF Ev!HandleServerReady
  <2>2. "ready" \in Ev!Statuses /\ ready \in BOOLEAN
    BY DEF Ev!Statuses, EvInv, EvTyped
  <2>3. QED
    BY <2>1, <2>2, EvMoves
<1>4. CASE Ev!Deliver
  BY <1>4, EvDelivers
<1>5. ASSUME NEW w \in EvWaits, Ev!Timeout(w) PROVE EvInv'
  BY <1>5, EvTimeout
<1>6. ASSUME NEW w \in EvWaits, NEW s \in Ev!Statuses, Ev!WaitForStatus(w, s) PROVE EvInv'
  BY <1>6, EvWaiting
<1>7. QED
  BY <1>1, <1>2, <1>3, <1>4, <1>5, <1>6 DEF Ev!Next

(* What the run checks of it.                                              *)
LEMMA EvGives == ASSUME EvInv PROVE Ev!NoneSkipped /\ Ev!FirstIsFirst /\ Ev!WaitsAreTrue
<1>1. Ev!NoneSkipped
  <2>1. CASE pending = <<>> /\ heard = status
    <3>1. Len(pending) = 0 /\ DOMAIN pending = {}
      BY <2>1
    <3>2. QED
      BY <2>1, <3>1 DEF Ev!NoneSkipped
  <2>2. CASE pending = <<<<heard, status>>>>
    <3>1. /\ Len(pending) = 1 /\ DOMAIN pending = {1}
          /\ pending[1][1] = heard /\ pending[1][2] = status
      BY <2>2
    <3>2. QED
      BY <3>1 DEF Ev!NoneSkipped
  <2>3. QED
    BY <2>1, <2>2 DEF EvInv, OnePending
<1>2. Ev!FirstIsFirst
  BY DEF EvInv, ReadyKnown, Ev!FirstIsFirst
<1>3. Ev!WaitsAreTrue
  BY DEF EvInv, WaitsKept, Ev!WaitsAreTrue, Ev!Waiting, Ev!Quiet
<1>4. QED
  BY <1>1, <1>2, <1>3

(* So it does for every behaviour.                                         *)
LEMMA EvSound ==
  Ev!Init /\ [][Ev!Next]_(Ev!vars) => [](Ev!NoneSkipped /\ Ev!FirstIsFirst /\ Ev!WaitsAreTrue)
<1>1. EvInv /\ UNCHANGED Ev!vars => EvInv'
  <2> SUFFICES ASSUME EvInv, UNCHANGED Ev!vars PROVE EvInv'
    OBVIOUS
  <2>1. /\ status' = status /\ heard' = heard /\ connected' = connected /\ ready' = ready
        /\ wait' = wait /\ met' = met /\ evGot' = evGot /\ pending' = pending /\ falsely' = falsely
    BY DEF Ev!vars
  <2>2. EvTyped'
    BY <2>1 DEF EvInv, EvTyped
  <2>3. OnePending' /\ ReadyKnown'
    BY <2>1 DEF EvInv, OnePending, ReadyKnown
  <2>4. WaitsKept'
    BY <2>1 DEF EvInv, WaitsKept, Ev!Waiting
  <2>5. QED
    BY <2>2, <2>3, <2>4 DEF EvInv
<1>2. QED
  BY <1>1, EvStart, EvStep, EvGives, PTL


-----------------------------------------------------------------------------
(* The client of the compatible protocol, which is started once and not    *)
(* stopped while it connects.                                              *)

Compat == INSTANCE CompatLink WITH
  Last <- CompatLast, MaxAttempts <- CompatAttempts, MaxStarts <- 1,
  MaxLosses <- CompatLosses, StopsSettled <- TRUE,
  client <- compatClient, cside <- compatCside, sside <- compatSside,
  connection <- compatConnection, starts <- compatStarts

(* The values of the client, and of its sockets.                           *)
CompatClients ==
  [started : BOOLEAN, connecting : BOOLEAN, socket : 0 .. CompatLast,
   channel : BOOLEAN, attempts : Nat, timer : BOOLEAN, stray : {0}]
CompatStates == {"unused", "connecting", "open", "closing", "closed"}
(* A client that connects has neither a channel nor a timer.               *)
Connects(c) ==
  c.connecting => c.started /\ ~ c.channel /\ ~ c.timer
(* One that has a channel has no timer, and one that was stopped has       *)
(* nothing.                                                                *)
Serves(c) ==
  /\ c.channel => c.started /\ ~ c.timer
  /\ c.timer => c.started
(* The socket of the client is the one that connects or is open, and that  *)
(* one tells of its closing if it was open.  Sockets of a client that runs *)
(* do not wait to be closed.                                               *)
CompatSockets(c, sides, heardOf) ==
  \A n \in Compat!Sockets :
    /\ sides[n] = "connecting" <=> c.connecting /\ n = c.socket
    /\ sides[n] = "open" <=> c.channel /\ n = c.socket
    /\ sides[n] = "connecting" => n \notin heardOf
    /\ sides[n] \in {"open", "closing"} => n \in heardOf
    /\ sides[n] = "closing" => ~ c.started

(* The inductive invariant.                                                *)
CompatInv ==
  /\ compatClient \in CompatClients
  /\ compatCside \in [Compat!Sockets -> CompatStates]
  /\ Connects(compatClient) /\ Serves(compatClient)
  /\ CompatSockets(compatClient, compatCside, hears)
  /\ compatStarts \in Nat /\ (compatClient.started => compatStarts # 0)
  /\ compatStarts = 0 =>
       compatClient = Compat!NotStarted /\ \A n \in Compat!Sockets : compatCside[n] = "unused"
  /\ compatClient.connecting \/ compatClient.channel => compatClient.socket \in Compat!Sockets

(* At first there is no socket.                                            *)
LEMMA CompatStart == ASSUME CompatLast \in Nat, Compat!Init PROVE CompatInv
BY DEF Compat!Init, Compat!NotStarted, CompatInv, CompatClients, CompatStates, Connects, Serves,
       CompatSockets, Compat!Sockets

(* connect takes a socket that is free.                                    *)
LEMMA CompatConnects ==
  ASSUME CompatLast \in Nat, CompatInv, NEW c \in CompatClients, Compat!Connect(c),
         c.started, ~ c.connecting, ~ c.channel, ~ c.timer,
         ~ compatClient.connecting, ~ compatClient.channel,
         \A n \in Compat!Sockets : compatCside[n] # "closing",
         compatStarts' \in Nat, compatStarts' # 0
  PROVE  CompatInv'
<1>1. PICK n \in Compat!Free :
        /\ compatClient' = [c EXCEPT !.connecting = TRUE, !.socket = n]
        /\ compatCside' = [compatCside EXCEPT ![n] = "connecting"]
        /\ hears' = hears \ {n}
  BY DEF Compat!Connect
<1>2. n \in Compat!Sockets /\ n \in 0 .. CompatLast
  BY DEF Compat!Free, Compat!Sockets
<1>3. /\ compatClient'.connecting = TRUE /\ compatClient'.socket = n /\ compatClient'.started = c.started
      /\ compatClient'.channel = c.channel /\ compatClient'.timer = c.timer
  BY <1>1 DEF CompatClients
<1>4. compatClient' \in CompatClients
  <2>1. [c EXCEPT !.connecting = TRUE] \in CompatClients
    BY DEF CompatClients
  <2>2. compatClient' = [[c EXCEPT !.connecting = TRUE] EXCEPT !.socket = n]
    BY <1>1
  <2>3. QED
    BY <1>2, <2>1, <2>2 DEF CompatClients
<1>5. compatCside' \in [Compat!Sockets -> CompatStates]
  BY <1>1 DEF CompatInv, CompatStates
<1>6. \A m \in Compat!Sockets : compatCside'[m] = IF m = n THEN "connecting" ELSE compatCside[m]
  BY <1>1 DEF CompatInv
<1>7. CompatSockets(compatClient', compatCside', hears')
  BY <1>1, <1>2, <1>3, <1>6 DEF CompatInv, CompatSockets
<1>8. QED
  BY <1>2, <1>3, <1>4, <1>5, <1>7 DEF CompatInv, Connects, Serves

(* scheduleReconnect starts the timer or does nothing.                     *)
LEMMA CompatSchedules ==
  ASSUME NEW c \in CompatClients, ~ c.timer
  PROVE  LET new == Compat!Scheduled(c)
         IN  /\ new \in CompatClients /\ new.started = c.started /\ new.connecting = c.connecting
             /\ new.socket = c.socket /\ new.channel = c.channel
<1>1. CASE c.attempts >= CompatAttempts
  BY <1>1 DEF Compat!Scheduled
<1>2. CASE ~ (c.attempts >= CompatAttempts)
  <2>1. Compat!Scheduled(c) = [started |-> c.started, connecting |-> c.connecting, socket |-> c.socket,
                               channel |-> c.channel, attempts |-> c.attempts + 1, timer |-> TRUE,
                               stray |-> c.stray]
    BY <1>2 DEF Compat!Scheduled, CompatClients
  <2>2. QED
    BY <2>1 DEF CompatClients
<1>3. QED
  BY <1>1, <1>2

(* disconnect leaves neither timer nor socket nor channel.                 *)
LEMMA CompatDisconnects ==
  ASSUME CompatLast \in Nat, NEW c \in CompatClients
  PROVE  LET new == Compat!Disconnected(c)
         IN  /\ new \in CompatClients /\ new.started = c.started /\ new.connecting = c.connecting
             /\ new.socket = 0 /\ new.channel = FALSE /\ new.timer = FALSE
<1> DEFINE off == [c EXCEPT !.timer = FALSE]
           away == [off EXCEPT !.socket = 0]
<1>1. /\ off \in CompatClients /\ off.started = c.started /\ off.connecting = c.connecting
      /\ off.timer = FALSE
  BY DEF CompatClients
<1>2. /\ away \in CompatClients /\ away.started = c.started /\ away.connecting = c.connecting
      /\ away.timer = FALSE /\ away.socket = 0
  <2> HIDE DEF off
  <2>1. QED
    BY <1>1 DEF CompatClients
<1>3. Compat!Disconnected(c) = [away EXCEPT !.channel = FALSE]
  BY DEF Compat!Disconnected
<1> HIDE DEF away
<1>4. QED
  BY <1>2, <1>3 DEF CompatClients

(* The client starts and connects,                                         *)
LEMMA CompatStarted == ASSUME CompatLast \in Nat, CompatInv, Compat!Start PROVE CompatInv'
<1>1. compatStarts = 0 /\ compatStarts' = 1 /\ Compat!Connect([compatClient EXCEPT !.started = TRUE])
  BY DEF Compat!Start, CompatInv
<1>2. compatClient = Compat!NotStarted
  BY <1>1 DEF CompatInv
<1> DEFINE c == [compatClient EXCEPT !.started = TRUE]
<1>3. c \in CompatClients /\ c.started /\ ~ c.connecting /\ ~ c.channel /\ ~ c.timer
  <2>1. /\ compatClient \in CompatClients /\ ~ compatClient.connecting
        /\ ~ compatClient.channel /\ ~ compatClient.timer
    BY <1>2 DEF CompatInv, Compat!NotStarted
  <2>2. QED
    BY <2>1 DEF CompatClients
<1>4. ~ compatClient.connecting /\ ~ compatClient.channel
  BY <1>2 DEF Compat!NotStarted
<1>5. \A n \in Compat!Sockets : compatCside[n] # "closing"
  BY <1>1 DEF CompatInv
<1> HIDE DEF c
<1>6. compatStarts' \in Nat /\ compatStarts' # 0
  BY <1>1
<1>7. QED
  BY <1>1, <1>3, <1>4, <1>5, <1>6, CompatConnects DEF c

(* stops,                                                                  *)
LEMMA CompatStops == ASSUME CompatLast \in Nat, CompatInv, Compat!Stop PROVE CompatInv'
<1> DEFINE d == Compat!Disconnected(compatClient)
<1>1. /\ compatClient.started /\ ~ compatClient.connecting
      /\ compatClient' = [d EXCEPT !.started = FALSE]
      /\ compatCside' = Compat!Closing(compatClient) /\ UNCHANGED <<hears, compatStarts>>
  BY DEF Compat!Stop
<1>2. /\ d \in CompatClients /\ d.started = compatClient.started /\ d.connecting = compatClient.connecting
      /\ d.socket = 0 /\ d.channel = FALSE /\ d.timer = FALSE
  BY CompatDisconnects DEF CompatInv
<1>3. compatClient' \in CompatClients /\ compatClient'.started = FALSE /\ compatClient'.connecting = FALSE
      /\ compatClient'.channel = FALSE /\ compatClient'.timer = FALSE
  <2> HIDE DEF d
  <2>1. compatClient \in CompatClients
    BY DEF CompatInv
  <2>2. compatClient.connecting = FALSE
    BY <1>1, <2>1 DEF CompatClients
  <2>3. QED
    BY <1>1, <1>2, <2>2 DEF CompatClients
<1>4. /\ compatCside' \in [Compat!Sockets -> CompatStates]
      /\ \A n \in Compat!Sockets :
           \/ compatCside[n] = "open" /\ compatCside'[n] = "closing"
           \/ compatCside[n] \notin {"open", "connecting"} /\ compatCside'[n] = compatCside[n]
  <2>1. compatCside \in [Compat!Sockets -> CompatStates]
    BY DEF CompatInv
  <2>2. \A n \in Compat!Sockets : compatCside[n] # "connecting"
    BY <1>1 DEF CompatInv, CompatSockets
  <2>3. CASE compatClient.socket # 0 /\ compatCside[compatClient.socket] \in {"connecting", "open"}
    <3>1. compatCside' = [compatCside EXCEPT ![compatClient.socket] = "closing"]
      BY <1>1, <2>3 DEF Compat!Closing
    <3>2. compatClient.socket \in Compat!Sockets
      BY <2>3 DEF CompatInv, CompatClients, Compat!Sockets
    <3>3. \A n \in Compat!Sockets : n # compatClient.socket => compatCside[n] # "open"
      BY DEF CompatInv, CompatSockets
    <3>4. QED
      BY <2>1, <2>2, <2>3, <3>1, <3>2, <3>3 DEF CompatStates
  <2>4. CASE ~ (compatClient.socket # 0 /\ compatCside[compatClient.socket] \in {"connecting", "open"})
    <3>1. compatCside' = compatCside
      BY <1>1, <2>4 DEF Compat!Closing
    <3>2. \A n \in Compat!Sockets : compatCside[n] # "open"
      BY <2>4 DEF CompatInv, CompatSockets, Compat!Sockets
    <3>3. QED
      BY <2>1, <2>2, <3>1, <3>2
  <2>5. QED
    BY <2>3, <2>4
<1>5. CompatSockets(compatClient', compatCside', hears')
  BY <1>1, <1>3, <1>4 DEF CompatInv, CompatSockets
<1>6. compatStarts # 0
  BY <1>1 DEF CompatInv
<1>7. QED
  BY <1>1, <1>3, <1>4, <1>5, <1>6 DEF CompatInv, Connects, Serves

(* and connects again when the reconnect timer fires.                      *)
LEMMA CompatTimer == ASSUME CompatLast \in Nat, CompatInv, Compat!Timer PROVE CompatInv'
<1> DEFINE c == [compatClient EXCEPT !.timer = FALSE]
<1>1. compatClient \in CompatClients
  BY DEF CompatInv
<1>2. compatClient.timer /\ Compat!Connect(c) /\ compatStarts' = compatStarts
  BY <1>1 DEF Compat!Timer, CompatClients
<1>3. /\ c \in CompatClients /\ c.started = compatClient.started /\ c.connecting = compatClient.connecting
      /\ c.channel = compatClient.channel /\ c.timer = FALSE
  BY <1>1 DEF CompatClients
<1>4. compatClient.started /\ ~ compatClient.connecting /\ ~ compatClient.channel
  BY <1>2 DEF CompatInv, Connects, Serves
<1>5. /\ \A n \in Compat!Sockets : compatCside[n] # "closing"
      /\ compatStarts \in Nat /\ compatStarts # 0
  BY <1>4 DEF CompatInv, CompatSockets
<1> HIDE DEF c
<1>6. QED
  BY <1>2, <1>3, <1>4, <1>5, CompatConnects

(* Its socket opens,                                                       *)
LEMMA CompatOpens ==
  ASSUME CompatLast \in Nat, CompatInv, NEW n \in Compat!Sockets, Compat!Open(n) PROVE CompatInv'
<1>1. /\ compatCside[n] = "connecting" /\ compatClient.socket = n /\ Compat!Opened(n)
      /\ hears' = hears \cup {n} /\ compatStarts' = compatStarts
  BY DEF Compat!Open
<1>2. compatClient \in CompatClients /\ compatClient.connecting /\ compatClient.started
      /\ ~ compatClient.channel /\ ~ compatClient.timer
  BY <1>1 DEF CompatInv, CompatSockets, Connects
<1> DEFINE c == [compatClient EXCEPT !.connecting = FALSE, !.attempts = 0]
           settled == [compatClient EXCEPT !.connecting = FALSE]
<1>3. /\ settled \in CompatClients /\ settled.started /\ ~ settled.channel /\ ~ settled.timer
      /\ ~ settled.connecting /\ settled.socket = n
  BY <1>1, <1>2 DEF CompatClients
<1>4. /\ c \in CompatClients /\ c.started /\ ~ c.channel /\ ~ c.timer /\ ~ c.connecting
      /\ c.socket = n
  <2>1. c = [settled EXCEPT !.attempts = 0]
    OBVIOUS
  <2> HIDE DEF settled, c
  <2>2. QED
    BY <1>3, <2>1 DEF CompatClients
<1>5. compatClient' = [c EXCEPT !.channel = TRUE] /\ compatCside' = [compatCside EXCEPT ![n] = "open"]
  <2> HIDE DEF c
  <2>1. Compat!Opened(n) <=>
          IF ~ c.started
          THEN compatClient' = Compat!Scheduled(c) /\ compatCside' = [compatCside EXCEPT ![n] = "open"]
          ELSE IF c.channel
          THEN /\ compatClient' = [Compat!Disconnected(c) EXCEPT !.channel = TRUE]
               /\ compatCside' = [compatCside EXCEPT ![n] = "closing"]
          ELSE compatClient' = [c EXCEPT !.channel = TRUE] /\ compatCside' = [compatCside EXCEPT ![n] = "open"]
    BY DEF Compat!Opened, c
  <2>2. QED
    BY <1>1, <1>4, <2>1
<1>6. /\ compatClient' \in CompatClients /\ compatClient'.started /\ ~ compatClient'.connecting
      /\ compatClient'.channel /\ ~ compatClient'.timer /\ compatClient'.socket = n
  <2> HIDE DEF c
  <2>1. QED
    BY <1>4, <1>5 DEF CompatClients
<1>7. /\ compatCside' \in [Compat!Sockets -> CompatStates]
      /\ \A m \in Compat!Sockets : compatCside'[m] = IF m = n THEN "open" ELSE compatCside[m]
  BY <1>5 DEF CompatInv, CompatStates
<1>8. CompatSockets(compatClient', compatCside', hears')
  BY <1>1, <1>2, <1>6, <1>7 DEF CompatInv, CompatSockets
<1>9. compatStarts # 0
  BY <1>2 DEF CompatInv
<1>10. QED
  BY <1>1, <1>6, <1>7, <1>8, <1>9 DEF CompatInv, Connects, Serves

(* or closes, which starts the timer when the client is to reconnect.      *)
LEMMA CompatCloses ==
  ASSUME CompatLast \in Nat, CompatInv, NEW n \in Compat!Sockets, Compat!Closed(n) PROVE CompatInv'
<1>1. /\ compatCside[n] \in {"closing", "open", "connecting"}
      /\ IF n \in hears THEN Compat!HandleClose(n) ELSE Compat!ConnectFailed(n)
      /\ UNCHANGED <<hears, compatStarts>>
  BY DEF Compat!Closed
<1>2. /\ compatClient \in CompatClients /\ compatCside \in [Compat!Sockets -> CompatStates]
      /\ compatStarts \in Nat /\ compatStarts # 0
  BY <1>1 DEF CompatInv
<1>3. CASE compatCside[n] = "connecting"
  <2> DEFINE c == [compatClient EXCEPT !.connecting = FALSE]
  <2>1. n \notin hears /\ compatClient.connecting /\ n = compatClient.socket
        /\ compatClient.started /\ ~ compatClient.channel /\ ~ compatClient.timer
    BY <1>3 DEF CompatInv, CompatSockets, Connects
  <2>2. /\ compatClient' = Compat!Scheduled(c)
        /\ compatCside' = [compatCside EXCEPT ![n] = "closed"]
    BY <1>1, <2>1 DEF Compat!ConnectFailed
  <2>3. /\ c \in CompatClients /\ c.started = compatClient.started /\ c.connecting = FALSE
        /\ c.channel = compatClient.channel /\ c.timer = compatClient.timer
    BY <1>2 DEF CompatClients
  <2> HIDE DEF c
  <2>4. compatClient' \in CompatClients /\ compatClient'.started = c.started
        /\ compatClient'.connecting = c.connecting /\ compatClient'.channel = c.channel
    BY <2>1, <2>2, <2>3, CompatSchedules
  <2>5. \A m \in Compat!Sockets : compatCside'[m] \notin {"connecting", "open", "closing"}
    <3>1. \A m \in Compat!Sockets : m # n => compatCside[m] \notin {"connecting", "open", "closing"}
      BY <2>1 DEF CompatInv, CompatSockets
    <3>2. QED
      BY <1>2, <2>2, <3>1
  <2>6. compatCside' \in [Compat!Sockets -> CompatStates]
    BY <1>2, <2>2 DEF CompatStates
  <2>7. QED
    BY <1>1, <1>2, <2>1, <2>3, <2>4, <2>5, <2>6 DEF CompatInv, CompatSockets, Connects, Serves
<1>4. CASE compatCside[n] = "open"
  <2> DEFINE c == Compat!Disconnected(compatClient)
  <2>1. n \in hears /\ compatClient.channel /\ n = compatClient.socket
        /\ compatClient.started /\ ~ compatClient.connecting
    BY <1>4 DEF CompatInv, CompatSockets, Connects, Serves
  <2>2. /\ c \in CompatClients /\ c.started = compatClient.started /\ c.connecting = compatClient.connecting
        /\ c.channel = FALSE /\ c.timer = FALSE
    BY <1>2, CompatDisconnects
  <2>3. /\ compatClient' = Compat!Scheduled(c)
        /\ compatCside' = [Compat!Closing(compatClient) EXCEPT ![n] = "closed"]
    BY <1>1, <2>1, <2>2 DEF Compat!HandleClose
  <2> HIDE DEF c
  <2>4. compatClient' \in CompatClients /\ compatClient'.started = c.started
        /\ compatClient'.connecting = c.connecting /\ compatClient'.channel = c.channel
    BY <2>2, <2>3, CompatSchedules
  <2>5. Compat!Closing(compatClient) = [compatCside EXCEPT ![n] = "closing"]
    BY <1>4, <2>1 DEF Compat!Closing, Compat!Sockets
  <2>6. \A m \in Compat!Sockets : compatCside'[m] \notin {"connecting", "open", "closing"}
    <3>1. \A m \in Compat!Sockets : m # n => compatCside[m] \notin {"connecting", "open", "closing"}
      BY <2>1 DEF CompatInv, CompatSockets
    <3>2. QED
      BY <1>2, <2>3, <2>5, <3>1
  <2>7. compatCside' \in [Compat!Sockets -> CompatStates]
    BY <1>2, <2>3, <2>5 DEF CompatStates
  <2>8. QED
    BY <1>1, <1>2, <2>1, <2>2, <2>4, <2>6, <2>7 DEF CompatInv, CompatSockets, Connects, Serves
<1>5. CASE compatCside[n] = "closing"
  <2>1. n \in hears /\ ~ compatClient.started
    BY <1>5 DEF CompatInv, CompatSockets
  <2>2. ~ compatClient.channel /\ ~ compatClient.connecting
    BY <2>1 DEF CompatInv, Connects, Serves
  <2>3. compatClient' = compatClient /\ compatCside' = [compatCside EXCEPT ![n] = "closed"]
    BY <1>1, <2>1, <2>2 DEF Compat!HandleClose
  <2>4. compatCside' \in [Compat!Sockets -> CompatStates]
        /\ \A m \in Compat!Sockets : compatCside'[m] = IF m = n THEN "closed" ELSE compatCside[m]
    BY <1>2, <2>3 DEF CompatStates
  <2>5. CompatSockets(compatClient', compatCside', hears')
    BY <1>1, <1>5, <2>2, <2>3, <2>4 DEF CompatInv, CompatSockets
  <2>6. QED
    BY <1>1, <1>2, <2>2, <2>3, <2>4, <2>5 DEF CompatInv, Connects, Serves
<1>6. QED
  BY <1>1, <1>3, <1>4, <1>5

(* Every step keeps the invariant.                                         *)
LEMMA CompatStep == ASSUME CompatLast \in Nat, CompatInv, Compat!Next PROVE CompatInv'
<1>1. CASE UNCHANGED <<compatClient, compatCside, hears, compatStarts>>
  BY <1>1 DEF CompatInv
<1>2. ASSUME NEW n \in Compat!Sockets, Compat!Accept(n) \/ Compat!ServerClosed(n) \/ Compat!NeverSeen(n) \/ Compat!Lose(n)
      PROVE  UNCHANGED <<compatClient, compatCside, hears, compatStarts>>
  BY <1>2 DEF Compat!Accept, Compat!ServerClosed, Compat!NeverSeen, Compat!Lose
<1>3. QED
  BY <1>1, <1>2, CompatStarted, CompatStops, CompatTimer, CompatOpens, CompatCloses DEF Compat!Next, Compat!System

(* No socket is open but the client's.                                     *)
LEMMA CompatGives == ASSUME CompatInv PROVE Compat!OneOpen
BY DEF CompatInv, CompatSockets, Compat!OneOpen

(* So it does for every behaviour of the link.                             *)
LEMMA CompatSound == ASSUME CompatLast \in Nat PROVE Compat!Spec => []Compat!OneOpen
<1>1. CompatInv /\ UNCHANGED Compat!vars => CompatInv'
  BY DEF Compat!vars, CompatInv
<1>2. QED
  BY <1>1, CompatStart, CompatStep, CompatGives, PTL DEF Compat!Spec


-----------------------------------------------------------------------------
(* The other members.                                                      *)

Busy == INSTANCE SseLink WITH
  Last <- 3, MaxReconnect <- 2, MaxStarts <- 1, MaxAttempts <- 2,
  MaxData <- 1, MaxFails <- 0, client <- busyClient,
  stream <- busyStream, answer <- busyAnswer, conn <- busyConn,
  sChan <- busySChan, ctl <- busyCtl, posts <- busyPosts,
  count <- busyCount, dropped <- busyDropped

(* A header, and a byte for each part of a message.                        *)
Size(v) == 2 + Len(v)
Codec == INSTANCE WireCodec WITH
  Docs <- {doc}, Peers <- {peer}, Data <- {<<1, 2, 3>>},
  Versions <- {[p \in {peer} |-> 1]}, None <- none, CborSize <- Size, Threshold <- 7,
  ChunkSize <- 2, MaxMsgs <- 1,
  Batched <- {"sync-request", "update", "delete-response"},
  sent <- codecSent

-----------------------------------------------------------------------------
wsVars == <<wsClient, wsStarts, wsSocket, wsCside, wsConnects, wsOnclose,
            wsSside, wsConnection, wsServerChan, wsBroken,
            wsToClient, wsToServer>>
pollVars == <<pollClient, pollLoop, pollPolls, pollConn, pollSChan, pollPosts,
              pollSent, pollGot, pollCuts>>
busyVars == <<busyClient, busyStream, busyAnswer, busyConn, busySChan,
              busyCtl, busyPosts, busyCount, busyDropped>>
sseVars == <<sseClient, sseStream, sseAnswer, sseConn, sseSChan, sseCtl,
             ssePosts, sseCount, sseDropped>>
rtcVars == <<started, dc, wire, attached, listening, assembling, loro,
             rtcModel, rtcMade, attaches, stops>>
compatVars == <<compatClient, compatCside, hears, compatSside,
                compatConnection, compatStarts, losses>>
bridgeVars == <<registered, bridgeStarts, issued, channelTo, bridgeModel,
                tasks, requests>>
lifeVars == <<lifecycle, home, open, lifeMade, channels, adapters, lifeModel,
              ops, calls>>
evVars == <<status, pending, connected, heard, ready, falsely, wait, met,
            evGot, steps>>
codecVars == <<codecSent, payloads, header, fragments, received, errors>>
vars == <<adapter, wsVars, pollVars, busyVars, sseVars,
                  rtcVars, compatVars, bridgeVars, lifeVars,
                  evVars, codecVars>>

On(x) == adapter = x

(* A behaviour is about one of them; the others stay where they start.     *)
Init ==
  /\ adapter \in {"websocket", "polling", "ssedata", "sse",
                   "webrtc", "compat", "bridge", "life", "events", "codec"}
  /\ Ws!Init
  /\ Poll!Init
  /\ Busy!Init
  /\ Sse!Init
  /\ Rtc!Init
  /\ Compat!Init
  /\ Bridge!Init
  /\ Life!Init
  /\ Ev!Init
  /\ Codec!Init

Next ==
  \/ /\ On("websocket") /\ Ws!Next
     /\ UNCHANGED <<adapter, pollVars, busyVars, sseVars,
                    rtcVars, compatVars, bridgeVars,
                    lifeVars, evVars, codecVars>>
  \/ /\ On("polling") /\ Poll!Next
     /\ UNCHANGED <<adapter, wsVars, busyVars, sseVars,
                    rtcVars, compatVars, bridgeVars,
                    lifeVars, evVars, codecVars>>
  \/ /\ On("ssedata") /\ Busy!Next
     /\ UNCHANGED <<adapter, wsVars, pollVars, sseVars,
                    rtcVars, compatVars, bridgeVars,
                    lifeVars, evVars, codecVars>>
  \/ /\ On("sse") /\ Sse!Next
     /\ UNCHANGED <<adapter, wsVars, pollVars, busyVars,
                    rtcVars, compatVars, bridgeVars,
                    lifeVars, evVars, codecVars>>
  \/ /\ On("webrtc") /\ Rtc!Next
     /\ UNCHANGED <<adapter, wsVars, pollVars, busyVars,
                    sseVars, compatVars, bridgeVars,
                    lifeVars, evVars, codecVars>>
  \/ /\ On("compat") /\ Compat!Next
     /\ UNCHANGED <<adapter, wsVars, pollVars, busyVars,
                    sseVars, rtcVars, bridgeVars,
                    lifeVars, evVars, codecVars>>
  \/ /\ On("bridge") /\ Bridge!Next
     /\ UNCHANGED <<adapter, wsVars, pollVars, busyVars,
                    sseVars, rtcVars, compatVars,
                    lifeVars, evVars, codecVars>>
  \/ /\ On("life") /\ Life!Next
     /\ UNCHANGED <<adapter, wsVars, pollVars, busyVars,
                    sseVars, rtcVars, compatVars,
                    bridgeVars, evVars, codecVars>>
  \/ /\ On("events") /\ Ev!Next
     /\ UNCHANGED <<adapter, wsVars, pollVars, busyVars,
                    sseVars, rtcVars, compatVars,
                    bridgeVars, lifeVars, codecVars>>
  \/ /\ On("codec") /\ Codec!Next
     /\ UNCHANGED <<adapter, wsVars, pollVars, busyVars,
                    sseVars, rtcVars, compatVars,
                    bridgeVars, lifeVars, evVars>>

(* Each member is as fair as its own specification says.                   *)
Fairness ==
  /\ WF_wsVars(On("websocket") /\ Ws!Start)
  /\ WF_wsVars(On("websocket") /\ Ws!ReconnectTimer)
  /\ \A s \in Ws!Sockets : WF_wsVars(On("websocket") /\ Ws!ClientEvent(s))
  /\ \A s \in Ws!Sockets : WF_wsVars(On("websocket") /\ Ws!ServerEvent(s))
  /\ \A k \in Poll!Polls : WF_pollVars(On("polling") /\ Poll!PollArrives(k))
  /\ \A k \in Poll!Polls : WF_pollVars(On("polling") /\ Poll!TimerFires(k))
  /\ \A l \in Poll!Loops : WF_pollVars(On("polling") /\ Poll!Wake(l))
  /\ \A l \in Poll!Loops : WF_pollVars(On("polling") /\ Poll!Response(l))
  /\ WF_pollVars(On("polling") /\ (\E p \in pollPosts : Poll!PostArrives(p)))
  /\ WF_sseVars(On("sse") /\ Sse!OpenEvent)
  /\ WF_sseVars(On("sse") /\ Sse!Retry)
  /\ WF_sseVars(On("sse") /\ Sse!Message)
  /\ WF_sseVars(On("sse") /\ Sse!Posts)
  /\ \A k \in Sse!Streams : WF_sseVars(On("sse") /\ Sse!Accept(k))
  /\ \A k \in Sse!Streams : WF_sseVars(On("sse") /\ Sse!CloseEvent(k))
  /\ \A s \in Rtc!Sides : \A d \in Rtc!Channels : WF_rtcVars(On("webrtc") /\ Rtc!Message(s, d))
  /\ \A s \in Rtc!Sides : \A d \in Rtc!Channels : WF_rtcVars(On("webrtc") /\ Rtc!Opens(s, d))
  /\ WF_compatVars(On("compat") /\ Compat!Timer)
  /\ \A n \in Compat!Sockets : WF_compatVars(On("compat") /\ (Compat!Open(n) \/ Compat!Closed(n)))
  /\ \A n \in Compat!Sockets : WF_compatVars(On("compat") /\ (Compat!Accept(n) \/ Compat!NeverSeen(n)))
  /\ \A n \in Compat!Sockets : WF_compatVars(On("compat") /\ Compat!ServerClosed(n))
  /\ \A n \in 1 .. LifeCalls : WF_lifeVars(On("life") /\ Life!Continue(n))
  /\ WF_evVars(On("events") /\ Ev!Deliver)

Spec == Init /\ [][Next]_vars /\ Fairness

-----------------------------------------------------------------------------
ASSUME Assumptions ==
       /\ Ws!BoundAssumption /\ Ws!FlagAssumption /\ Poll!PollAssumption
       /\ Sse!SseAssumption /\ Rtc!WebRtcAssumption /\ Compat!CompatAssumption
       /\ Bridge!BridgeAssumption /\ Life!LifeAssumption
       /\ Ev!EventsAssumption /\ Codec!WireCodecAssumption

(* When nothing is on its way and no timer runs, both ends of a link agree *)
(* that it is established, on the same socket, stream or data channel, or  *)
(* the client has stopped or given up, or the late close of a connection   *)
(* that was replaced took away its successor at the server, which nothing  *)
(* mends.  What is decoded was encoded.                                    *)
EndsAgree ==
  /\ Ws!QuietAgree /\ Poll!QuietAgree /\ Sse!QuietAgree /\ Busy!QuietAgree
  /\ Rtc!QuietAgree /\ Compat!QuietAgree /\ Bridge!QuietEstablished
  /\ Codec!ReceivedIsSent

(* The synchronizer is offered a channel exactly while messages sent there *)
(* reach a transport that is open: while the client of a WebSocket is      *)
(* ready, while an attached data channel is open, while the adapter that   *)
(* made the channel is in the manager's map.                               *)
ChannelsAreLive ==
  /\ Ws!ChannelWhileReady
  /\ Rtc!OpenIsServed /\ Rtc!NoneOrphaned /\ Life!Agree

(* Nothing happens twice or behind the back of a successor: one socket of  *)
(* the compatible client is open, one request establishes a pair of        *)
(* channels on a Bridge, onStart runs again only after onStop, what the    *)
(* server sends by long polls arrives, in order and once, unless a poll is *)
(* cut, and listeners to a client hear of each state in order, of a first  *)
(* connection never as of a second.                                        *)
OnlyOnce ==
  /\ Compat!OneOpen /\ Bridge!EstablishedOnce /\ Life!OpensOnce
  /\ Poll!NothingLost /\ Poll!InOrderOnce
  /\ Ev!NoneSkipped /\ Ev!FirstIsFirst /\ Ev!WaitsAreTrue

(* In whatever order sockets open, close and time out, the state machine   *)
(* of the WebSocket client is asked for no invalid transition, and a       *)
(* client gives up only after the attempts it was allowed.                 *)
GivesUpForCause ==
  Ws!NeverThrows /\ Ws!GivesUpLate /\ Sse!GivenUpForCause

(* Two ends that want to be linked, and are not stopped, end up linked for *)
(* good, or the client has used up the attempts it is allowed, or what it  *)
(* had before was closed late at the server and took the link away.        *)
Wanted ==
  CASE On("sse") -> sseClient.started /\ sseClient.at # "closed"
    [] On("compat") -> compatClient.started
    [] On("webrtc") -> attached[1] = attached[2] /\ attached[1] # 0
                         /\ \A s \in {1, 2} : dc[s][attached[s]] # "closed"
    [] OTHER -> TRUE
Linked ==
  CASE On("websocket") -> Ws!Linked \/ wsClient.status = "disconnected" \/ Ws!Overtaken
    [] On("sse") -> \/ sseClient.chan = "established" /\ sseSChan = "established"
                    \/ Sse!Overtaken
    [] On("compat") -> \/ Compat!Linked \/ compatClient.attempts = CompatAttempts
                       \/ Compat!Overtaken
    [] On("webrtc") -> \A s \in {1, 2} : \E c \in Rtc!Channels :
                         attached[s] = c /\ rtcModel[s][c] = "established"
    [] OTHER -> TRUE
Recovers == <>[]Wanted => <>[]Linked

(* What somebody waits for comes to an end: a poll that the server holds,  *)
(* a POST that is tried again, a call that stops adapters.                 *)
WaitsEnd ==
  /\ \A k \in Poll!Polls : []<>(~ pollPolls[k].live \/ pollPolls[k].at # "held" \/ pollCuts # 0)
  /\ []<>(pollPosts = {} \/ pollCuts # 0) /\ []<>(ops = {})

(* removeAdapter takes an adapter out of the map only when it has stopped, *)
(* and what a Repo handles on a channel of a Bridge was sent on the other  *)
(* end's present channel: no step acts for a connection that is over.      *)
NothingStale == Life!RemovesStopped /\ Bridge!OwnConnection

-----------------------------------------------------------------------------
(* What is proved of the members is proved of the whole: it starts as      *)
(* they do,                                                                *)
LEMMA Starts ==
  ASSUME Init
  PROVE  /\ Ws!Init /\ Sse!Init /\ Rtc!Init /\ Bridge!Init /\ Life!Init
         /\ Poll!Init /\ Ev!Init /\ Compat!Init
BY DEF Init

(* each step is a step of a member or leaves it alone,                     *)
LEMMA Steps ==
  ASSUME [Next]_vars
  PROVE  /\ [Ws!Next]_(Ws!vars) /\ [Sse!Next]_(Sse!vars) /\ [Rtc!Next]_(Rtc!vars)
         /\ [Bridge!Next]_(Bridge!vars) /\ [Life!Next]_(Life!vars)
         /\ [Poll!Next]_(Poll!vars) /\ [Ev!Next]_(Ev!vars) /\ [Compat!Next]_(Compat!vars)
<1>1. UNCHANGED vars => UNCHANGED <<wsVars, sseVars, rtcVars, bridgeVars, lifeVars,
                                    pollVars, evVars, compatVars>>
  BY DEF vars
<1>2. /\ Ws!Next \/ UNCHANGED wsVars
      /\ Sse!Next \/ UNCHANGED sseVars
      /\ Rtc!Next \/ UNCHANGED rtcVars
      /\ Bridge!Next \/ UNCHANGED bridgeVars
      /\ Life!Next \/ UNCHANGED lifeVars
      /\ Poll!Next \/ UNCHANGED pollVars
      /\ Ev!Next \/ UNCHANGED evVars
      /\ Compat!Next \/ UNCHANGED compatVars
  BY <1>1 DEF Next
<1>3. /\ UNCHANGED wsVars => UNCHANGED Ws!vars
      /\ UNCHANGED sseVars => UNCHANGED Sse!vars
      /\ UNCHANGED rtcVars => UNCHANGED Rtc!vars
      /\ UNCHANGED bridgeVars => UNCHANGED Bridge!vars
      /\ UNCHANGED lifeVars => UNCHANGED Life!vars
  BY DEF wsVars, sseVars, rtcVars, bridgeVars, lifeVars, Ws!vars, Ws!clientVars,
         Ws!serverVars, Sse!vars, Rtc!vars, Rtc!app, Bridge!vars, Life!vars
<1>4. /\ UNCHANGED pollVars => UNCHANGED Poll!vars
      /\ UNCHANGED evVars => UNCHANGED Ev!vars
      /\ UNCHANGED compatVars => UNCHANGED Compat!vars
  BY DEF pollVars, evVars, compatVars, Poll!vars, Ev!vars, Compat!vars
<1>5. QED
  BY <1>2, <1>3, <1>4

(* so that each behaviour is one of every member.                          *)
LEMMA Members ==
  Spec => /\ Ws!Spec /\ Sse!Spec /\ Rtc!Spec /\ Bridge!Spec /\ Life!Spec
          /\ Poll!Spec /\ Compat!Spec /\ Ev!Init /\ [][Ev!Next]_(Ev!vars)
<1>1. Spec => Init /\ [][Next]_vars
  BY DEF Spec
<1>2. QED
  BY <1>1, Starts, Steps, PTL
     DEF Ws!Spec, Sse!Spec, Rtc!Spec, Bridge!Spec, Life!Spec, Poll!Spec, Compat!Spec

(* The constants are what the theorems of the members assume.              *)
LEMMA Constants ==
  /\ WsBounds /\ SsePosts \in Nat \ {0} /\ RtcLast \in Nat /\ BridgeBounds
  /\ Life!LifeAssumption /\ PollBounds /\ CompatLast \in Nat
<1>1. WsBounds
  BY Assumptions DEF Ws!BoundAssumption, WsBounds
<1>2. SsePosts \in Nat \ {0}
  BY Assumptions DEF Sse!SseAssumption
<1>3. RtcLast \in Nat
  BY Assumptions DEF Rtc!WebRtcAssumption
<1>4. BridgeBounds
  BY Assumptions DEF Bridge!BridgeAssumption, BridgeBounds, IsFiniteSet, Bridge!IsFiniteSet
<1>5. PollBounds
  BY Assumptions DEF Poll!PollAssumption, PollBounds
<1>6. CompatLast \in Nat
  BY Assumptions DEF Compat!CompatAssumption
<1>7. QED
  BY Assumptions, <1>1, <1>2, <1>3, <1>4, <1>5, <1>6

(* The state machine of the WebSocket client is asked for no invalid       *)
(* transition, and a client gives up, on the link or on a POST, only after *)
(* the attempts it was allowed.                                            *)
THEOREM NoneGivesUpEarly == Spec => []GivesUpForCause
<1>1. Ws!Spec => [](Ws!NeverThrows /\ Ws!GivesUpLate /\ Ws!ChannelWhileReady)
  BY Constants, WsSound
<1>2. Sse!Spec => []Sse!GivenUpForCause
  BY Constants, SseSound
<1>3. Ws!NeverThrows /\ Ws!GivesUpLate /\ Sse!GivenUpForCause => GivesUpForCause
  BY DEF GivesUpForCause
<1>4. QED
  BY <1>1, <1>2, <1>3, Members, PTL

(* The synchronizer is offered a channel exactly while messages sent there *)
(* reach a transport that is open.                                         *)
THEOREM ChannelsStayLive == Spec => []ChannelsAreLive
<1>1. Ws!Spec => [](Ws!NeverThrows /\ Ws!GivesUpLate /\ Ws!ChannelWhileReady)
  BY Constants, WsSound
<1>2. Rtc!Spec => [](Rtc!OpenIsServed /\ Rtc!NoneOrphaned)
  BY Constants, RtcSound
<1>3. Life!Spec => [](Life!Agree /\ Life!OpensOnce) /\ Life!RemovesStopped
  BY Constants, LifeSound
<1>4. Ws!ChannelWhileReady /\ Rtc!OpenIsServed /\ Rtc!NoneOrphaned /\ Life!Agree
      => ChannelsAreLive
  BY DEF ChannelsAreLive
<1>5. QED
  BY <1>1, <1>2, <1>3, <1>4, Members, PTL

(* removeAdapter takes out only what has stopped, and what a Repo handles  *)
(* was sent on the other end's present channel.                            *)
THEOREM NothingGoesStale == Spec => NothingStale
<1>1. Life!Spec => [](Life!Agree /\ Life!OpensOnce) /\ Life!RemovesStopped
  BY Constants, LifeSound
<1>2. Bridge!Spec => Bridge!OwnConnection /\ []Bridge!EstablishedOnce
  BY Constants, BridgeSound
<1>3. QED
  BY <1>1, <1>2, Members, PTL DEF NothingStale

(* Nothing happens twice or behind the back of a successor: one socket of  *)
(* the compatible client is open, one request establishes a pair of        *)
(* channels, onStart runs again only after onStop, messages of the server  *)
(* of polls arrive in order and once, and listeners hear of each state.    *)
THEOREM OnceEverywhere == Spec => []OnlyOnce
<1>1. Life!Spec => [](Life!Agree /\ Life!OpensOnce) /\ Life!RemovesStopped
  BY Constants, LifeSound
<1>2. Bridge!Spec => Bridge!OwnConnection /\ []Bridge!EstablishedOnce
  BY Constants, BridgeSound
<1>3. Compat!Spec => []Compat!OneOpen
  BY Constants, CompatSound
<1>4. Poll!Spec => [](Poll!NothingLost /\ Poll!InOrderOnce)
  BY Constants, PollSound
<1>5. Ev!Init /\ [][Ev!Next]_(Ev!vars) => [](Ev!NoneSkipped /\ Ev!FirstIsFirst /\ Ev!WaitsAreTrue)
  BY EvSound
<1>6. /\ Compat!OneOpen /\ Bridge!EstablishedOnce /\ Life!OpensOnce
      /\ Poll!NothingLost /\ Poll!InOrderOnce
      /\ Ev!NoneSkipped /\ Ev!FirstIsFirst /\ Ev!WaitsAreTrue
      => OnlyOnce
  BY DEF OnlyOnce
<1>7. QED
  BY <1>1, <1>2, <1>3, <1>4, <1>5, <1>6, Members, PTL
=============================================================================
