---------------------------- MODULE AdapterLife ----------------------------
(***************************************************************************)
(* Adding, removing, resetting and shutting down the adapters of Repos.    *)
(*                                                                         *)
(* An adapter (adapter.ts) keeps a life cycle and a directory of channels; *)
(* the AdapterManager of a Repo keeps a map from adapterId to adapter, and *)
(* its Synchronizer a model with the channels it was told of.  The calls   *)
(* that stop an adapter are asynchronous, so all three change at different *)
(* moments: a call in flight is a record in `ops`.                         *)
(*                                                                         *)
(* Kind[a] says what onStart and onStop of the adapter do:                 *)
(*   "storage"  one channel, made in onStart; onStop awaits the writes in  *)
(*              flight and removes it (storage-adapter.ts);                *)
(*   "server"   channels as connections come; onStop removes them before   *)
(*              it returns (the WebSocket, SSE and WebRTC adapters);       *)
(*   "custom"   the adapter of docs/creating-adapters.md: onStop awaits    *)
(*              server.disconnect(), and connections come and go until     *)
(*              then.                                                      *)
(*                                                                         *)
(* Serial says that the application awaits removeAdapter and shutdown      *)
(* before its next call and hands over an adapter only when it is new or   *)
(* has stopped.                                                            *)
(***************************************************************************)
EXTENDS Naturals, FiniteSets, Sequences

CONSTANTS Repos, Adapters, Ids, None,
          IdOf,        \* [Adapters -> Ids]: the adapterId
          Kind,        \* [Adapters -> {"storage", "server", "custom"}]
          Serial,      \* BOOLEAN
          MaxChannels, \* bound on the channels an adapter makes
          MaxCalls     \* bound on the calls of the application

LifeAssumption ==
  /\ IdOf \in [Adapters -> Ids]
  /\ Kind \in [Adapters -> {"storage", "server", "custom"}]
  /\ Serial \in BOOLEAN
  /\ None \notin Adapters
  /\ MaxChannels \in Nat /\ MaxCalls \in Nat

VARIABLES
  lifecycle,  \* [Adapters -> "created" | "initialized" | "started" | "stopped"]
  home,       \* [Adapters -> Repos \cup {None}]: whose callbacks it holds
  open,       \* [Adapters -> Nat]: runs of onStart that no onStop has ended
  made,       \* [Adapters -> Nat]: channels made, which numbers them
  channels,   \* [Adapters -> SUBSET Channel]: the ChannelDirectory
  adapters,   \* [Repos -> [Ids -> Adapters \cup {None}]]: the manager's map
  model,      \* [Repos -> SUBSET Channel]: the channels the Synchronizer knows
  ops,        \* the calls in flight
  calls       \* calls made so far, which numbers them
vars == <<lifecycle, home, open, made, channels, adapters, model, ops, calls>>

Lifecycles == {"created", "initialized", "started", "stopped"}
Channel == [adapter : Adapters, nr : 1 .. MaxChannels]
Op == [nr : 1 .. MaxCalls, kind : {"remove", "reset", "shutdown"}, repo : Repos,
       id : Ids \cup {None}, adapter : Adapters \cup {None},
       phase : {"next", "onStop", "delete"}, visited : SUBSET Ids]

InMap(r) == {adapters[r][i] : i \in Ids} \ {None}
Stopping == {o.adapter : o \in {q \in ops : q.phase = "onStop"}}

Init ==
  /\ lifecycle = [a \in Adapters |-> "created"]
  /\ home = [a \in Adapters |-> None]
  /\ open = [a \in Adapters |-> 0]
  /\ made = [a \in Adapters |-> 0]
  /\ channels = [a \in Adapters |-> {}]
  /\ adapters = [r \in Repos |-> [i \in Ids |-> None]]
  /\ model = [r \in Repos |-> {}]
  /\ ops = {}
  /\ calls = 0

(* The application may call.                                               *)
MayCall ==
  /\ calls < MaxCalls
  /\ Serial => \A o \in ops : o.kind = "reset"
  /\ calls' = calls + 1

(* ... and may hand over this adapter.                                     *)
MayUse(a) ==
  /\ Serial => lifecycle[a] # "started"
  /\ Kind[a] = "storage" => made[a] < MaxChannels

-----------------------------------------------------------------------------
(* Adding                                                                  *)

(* _initialize of the adapters in `given` for Repo r, then _start of those *)
(* in `started`.  An adapter that is still started is stopped on the way:  *)
(* its directory is emptied and its state forgotten, onStop is not called. *)
FirstChannels(as) ==
  {[adapter |-> a, nr |-> made[a] + 1] : a \in {b \in as : Kind[b] = "storage"}}
ChannelsOfNew(given, started) ==
  [a \in Adapters |->
     IF a \in given THEN {c \in FirstChannels(started) : c.adapter = a}
     ELSE channels[a]]

InitializeAndStart(r, given, started) ==
  /\ lifecycle' = [a \in Adapters |-> IF a \in started THEN "started"
                                      ELSE IF a \in given THEN "initialized"
                                      ELSE lifecycle[a]]
  /\ home' = [a \in Adapters |-> IF a \in given THEN r ELSE home[a]]
  /\ open' = [a \in Adapters |-> IF a \in started THEN open[a] + 1 ELSE open[a]]
  /\ made' = [a \in Adapters |->
                IF a \in started /\ Kind[a] = "storage" THEN made[a] + 1 ELSE made[a]]
  /\ channels' = ChannelsOfNew(given, started)
  /\ model' = [model EXCEPT ![r] = @ \cup FirstChannels(started)]

(* A new Repo with the adapters of a sequence: the constructor initializes *)
(* each and puts it in the map, the later over the earlier, and startAll   *)
(* starts what is in the map.                                              *)
Construct(r, given) ==
  LET gs == {given[k] : k \in DOMAIN given}
      lastOf == [i \in Ids |->
                   LET ks == {k \in DOMAIN given : IdOf[given[k]] = i}
                   IN  IF ks = {} THEN None
                       ELSE given[CHOOSE k \in ks : \A l \in ks : l <= k]]
  IN /\ MayCall
     /\ InMap(r) = {} /\ model[r] = {} /\ \A o \in ops : o.repo # r
     /\ \A a \in gs : MayUse(a)
     /\ adapters' = [adapters EXCEPT ![r] = lastOf]
     /\ InitializeAndStart(r, gs, {lastOf[i] : i \in Ids} \ {None})
     /\ UNCHANGED ops

(* addAdapter: skipped when the map holds the id.                          *)
AddAdapter(r, a) ==
  /\ MayCall
  /\ MayUse(a)
  /\ IF adapters[r][IdOf[a]] # None
     THEN UNCHANGED <<lifecycle, home, open, made, channels, adapters, model>>
     ELSE /\ adapters' = [adapters EXCEPT ![r][IdOf[a]] = a]
          /\ InitializeAndStart(r, {a}, {a})
  /\ UNCHANGED ops

-----------------------------------------------------------------------------
(* Connections                                                             *)

(* A connection comes: addChannel, which tells the Repo of the life cycle. *)
Accept(a) ==
  /\ open[a] > 0
  /\ Kind[a] # "storage"
  /\ lifecycle[a] = "started"
  /\ made[a] < MaxChannels
  /\ LET c == [adapter |-> a, nr |-> made[a] + 1]
     IN /\ channels' = [channels EXCEPT ![a] = @ \cup {c}]
        /\ model' = [model EXCEPT ![home[a]] = @ \cup {c}]
  /\ made' = [made EXCEPT ![a] = @ + 1]
  /\ UNCHANGED <<lifecycle, home, open, adapters, ops, calls>>

(* A connection closes: removeChannel; the Repo hears of it when the       *)
(* directory had the channel.                                              *)
Close(a, c) ==
  /\ Kind[a] # "storage"
  /\ lifecycle[a] = "started"
  /\ c \in channels[a]
  /\ channels' = [channels EXCEPT ![a] = @ \ {c}]
  /\ model' = [model EXCEPT ![home[a]] = @ \ {c}]
  /\ UNCHANGED <<lifecycle, home, open, made, adapters, ops, calls>>

-----------------------------------------------------------------------------
(* Stopping                                                                *)

(* What has left the models when _stop(a) has run for a in `stopped` up to *)
(* its first await, and onReset for the adapters in `resetBy` of Repo r.   *)
Served(as) == {a \in as : Kind[a] = "server"}
ModelAfter(r, stopped, resetBy) ==
  [q \in Repos |-> model[q]
     \ ((UNION {channels[a] : a \in {b \in Served(stopped) : home[b] = q}})
        \cup IF q = r THEN UNION {channels[a] : a \in resetBy} ELSE {})]

(* Bug: onStop leaves the listener open.                                   *)
StaysOpen(as) == open
OpenAfter(as) == [a \in Adapters |-> IF a \in Served(as) THEN 0 ELSE open[a]]
DirectoryAfter(as) == [a \in Adapters |-> IF a \in Served(as) THEN {} ELSE channels[a]]

BeginStop(r, as, resetBy) ==
  /\ model' = ModelAfter(r, as, resetBy)
  /\ channels' = DirectoryAfter(as)
  /\ open' = OpenAfter(as)

Call(kind, r, i, a, phase) ==
  [nr |-> calls + 1, kind |-> kind, repo |-> r, id |-> i, adapter |-> a,
   phase |-> phase, visited |-> {}]

(* Bug: _stop is not awaited.                                              *)
NotAwaited(r, i, a) == Call("remove", r, i, a, "delete")
(* removeAdapter goes on when _stop is done.                               *)
RemoveCall(r, i, a) == Call("remove", r, i, a, "onStop")

(* removeAdapter up to its first await.                                    *)
RemoveAdapter(r, i) ==
  LET a == adapters[r][i]
  IN /\ MayCall
     /\ a # None
     /\ BeginStop(r, {a}, {a})
     /\ ops' = ops \cup {RemoveCall(r, i, a)}
     /\ UNCHANGED <<lifecycle, home, made, adapters>>

(* Bug: the Synchronizer keeps its model.                                  *)
OldModel(r, as) == ModelAfter(r, as, {})
(* The model of r is made anew.                                            *)
NewModel(r, as) == [ModelAfter(r, as, {}) EXCEPT ![r] = {}]

(* reset: every adapter is told to stop and none is awaited; the map is    *)
(* empty and the model new at once.                                        *)
Reset(r) ==
  LET as == InMap(r)
  IN /\ MayCall
     /\ as # {}
     /\ model' = NewModel(r, as)
     /\ channels' = DirectoryAfter(as)
     /\ open' = OpenAfter(as)
     /\ ops' = ops \cup {Call("reset", r, IdOf[a], a, "onStop") : a \in as}
     /\ adapters' = [adapters EXCEPT ![r] = [i \in Ids |-> None]]
     /\ UNCHANGED <<lifecycle, home, made>>

(* shutdown: the flush, then the adapters one by one.                      *)
Shutdown(r) ==
  /\ MayCall
  /\ InMap(r) # {}
  /\ ops' = ops \cup {Call("shutdown", r, None, None, "next")}
  /\ UNCHANGED <<lifecycle, home, open, made, channels, adapters, model>>

(* Bug: an adapter is visited as long as it is in the map.                 *)
VisitAgain(o) == {i \in Ids : adapters[o.repo][i] # None}
(* The iteration over the map visits what is in it, once.                  *)
ToVisit(o) == {i \in Ids \ o.visited : adapters[o.repo][i] # None}

(* The next adapter is told to stop.                                       *)
ShutdownNext(o) ==
  /\ o.kind = "shutdown" /\ o.phase = "next"
  /\ \E i \in ToVisit(o) :
       LET a == adapters[o.repo][i]
       IN /\ BeginStop(o.repo, {a}, {})
          /\ ops' = (ops \ {o}) \cup
                    {[o EXCEPT !.id = i, !.adapter = a, !.phase = "onStop",
                               !.visited = @ \cup {i}]}
  /\ UNCHANGED <<lifecycle, home, made, adapters, calls>>

(* All have stopped.                                                       *)
ShutdownEnds(o) ==
  /\ o.kind = "shutdown" /\ o.phase = "next"
  /\ ToVisit(o) = {}
  /\ adapters' = [adapters EXCEPT ![o.repo] = [i \in Ids |-> None]]
  /\ model' = [model EXCEPT ![o.repo] = {}]
  /\ ops' = ops \ {o}
  /\ UNCHANGED <<lifecycle, home, open, made, channels, calls>>

(* Bug: the directory keeps what onStop has not removed.                   *)
NotEmptied(a) == channels
(* channels.reset().                                                       *)
Emptied(a) == [channels EXCEPT ![a] = {}]

(* onStop ends and _stop goes on: a storage adapter removes its channel    *)
(* and tells its Repo, what else is in the directory goes without a word.  *)
Stopped(o) ==
  LET a == o.adapter
      told == IF Kind[a] = "storage" THEN channels[a] ELSE {}
  IN /\ o.phase = "onStop"
     /\ lifecycle' = [lifecycle EXCEPT ![a] = "stopped"]
     /\ channels' = Emptied(a)
     /\ model' = [r \in Repos |-> IF r = home[a] THEN model[r] \ told ELSE model[r]]
     /\ open' = IF Kind[a] = "server" THEN open ELSE [open EXCEPT ![a] = 0]
     /\ ops' = (ops \ {o}) \cup
          CASE o.kind = "remove" -> {[o EXCEPT !.phase = "delete"]}
            [] o.kind = "shutdown" -> {[o EXCEPT !.phase = "next"]}
            [] OTHER -> {}
     /\ UNCHANGED <<home, made, adapters, calls>>

(* Bug: the map keeps the adapter.                                         *)
StaysInMap(o) == adapters
WithoutId(o) == [adapters EXCEPT ![o.repo][o.id] = None]

(* removeAdapter goes on: the id leaves the map, whatever is there.        *)
Delete(o) ==
  /\ o.phase = "delete"
  /\ adapters' = WithoutId(o)
  /\ ops' = ops \ {o}
  /\ UNCHANGED <<lifecycle, home, open, made, channels, model, calls>>

-----------------------------------------------------------------------------
Sequences2 == {<<a>> : a \in Adapters}
              \cup {<<p[1], p[2]>> : p \in {q \in Adapters \X Adapters : q[1] # q[2]}}

Next ==
  \/ \E r \in Repos, given \in Sequences2 : Construct(r, given)
  \/ \E r \in Repos, a \in Adapters : AddAdapter(r, a)
  \/ \E a \in Adapters : Accept(a)
  \/ \E a \in Adapters : \E c \in channels[a] : Close(a, c)
  \/ \E r \in Repos, i \in Ids : RemoveAdapter(r, i)
  \/ \E r \in Repos : Reset(r)
  \/ \E r \in Repos : Shutdown(r)
  \/ \E o \in ops : ShutdownNext(o)
  \/ \E o \in ops : ShutdownEnds(o)
  \/ \E o \in ops : Stopped(o)
  \/ \E o \in ops : Delete(o)

Spec == Init /\ [][Next]_vars

(* Promises settle: onStop ends and what awaits it goes on.                *)
Continue(n) == \E o \in {q \in ops : q.nr = n} :
                 ShutdownNext(o) \/ ShutdownEnds(o) \/ Stopped(o) \/ Delete(o)
FairSpec == Spec /\ \A n \in 1 .. MaxCalls : WF_vars(Continue(n))

-----------------------------------------------------------------------------
TypeOK ==
  /\ lifecycle \in [Adapters -> Lifecycles]
  /\ home \in [Adapters -> Repos \cup {None}]
  /\ open \in [Adapters -> Nat]
  /\ made \in [Adapters -> 0 .. MaxChannels]
  /\ channels \in [Adapters -> SUBSET Channel]
  /\ \A a \in Adapters : lifecycle[a] # "started" => channels[a] = {}
  /\ adapters \in [Repos -> [Ids -> Adapters \cup {None}]]
  /\ model \in [Repos -> SUBSET Channel]
  /\ ops \subseteq Op
  /\ calls \in 0 .. MaxCalls

(* The model of a Repo and the directories of its adapters agree: every    *)
(* channel it knows, which handlers wait for and send to, is one that      *)
(* AdapterManager.send can reach, and it knows every channel of an adapter *)
(* that is not on its way out.                                             *)
Agree ==
  \A r \in Repos :
    /\ \A c \in model[r] : c.adapter \in InMap(r)
    /\ \A a \in InMap(r) \ Stopping :
         {c \in model[r] : c.adapter = a} = channels[a]

(* An adapter in the map of a Repo that no call is stopping or deleting is *)
(* started, with the callbacks of that Repo.                               *)
MapIsLive ==
  \A r \in Repos : \A a \in InMap(r) :
    \/ lifecycle[a] = "started" /\ home[a] = r
    \/ \E o \in ops : o.repo = r /\ IdOf[a] \in {o.id} \cup o.visited

(* removeAdapter takes only an adapter out of the map that has stopped.    *)
RemovesStopped ==
  [][\A o \in ops : Delete(o) =>
        LET a == adapters[o.repo][o.id]
        IN  a = None \/ lifecycle[a] = "stopped"]_vars

(* onStart runs again only after onStop: an adapter does not listen twice. *)
OpensOnce == \A a \in Adapters : open[a] <= 1

(* Every removeAdapter, reset and shutdown comes to its end.               *)
EveryCallEnds ==
  \A n \in 1 .. MaxCalls :
    (\E o \in ops : o.nr = n) ~> ~ \E o \in ops : o.nr = n
=============================================================================
