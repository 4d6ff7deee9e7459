-------------------------------- MODULE Lens --------------------------------
(***************************************************************************)
(* Lenses (packages/lens/src): each shows of its world what its filter     *)
(* accepts, in a document of its own, the worldview, and carries what is   *)
(* changed there back to the world as a difference of states.  The world   *)
(* of a lens may be the worldview of another.  Loro calls subscribers      *)
(* within the commit or import that they hear of, and they may change a    *)
(* lens in turn: what is left to run is a sequence of steps, and whatever  *)
(* a step calls runs before the rest of them.                              *)
(***************************************************************************)
EXTENDS Naturals, Sequences, SequencesExt, FiniteSets

CONSTANTS
  Lenses,    \* the worldview of a lens has its name
  Root,      \* the document that is shared with other peers
  World,     \* [Lenses -> document]
  Listeners, \* [document -> sequence of lenses], in the order they subscribed
  Remotes,   \* changes that other peers make
  Changes,   \* changes that applications make through lenses
  Trusted,   \* [Lenses -> set of peers], for a filter by peers
  Barred,    \* changes whose message filters do not accept
  Reacting   \* lenses whose application changes them when it hears of events

Docs == Lenses \cup {Root}
LensAssumption ==
  /\ Root \notin Lenses
  /\ World \in [Lenses -> Docs]
  /\ \A d \in Docs : Range(Listeners[d]) = {l \in Lenses : d \in {l, World[l]}}
  /\ Reacting \subseteq Lenses /\ Changes \cap Remotes = {}

VARIABLES
  log,        \* what each document has: its operations
  remote,     \* operations that other peers made
  seenWorld,  \* lastKnownWorldFrontiers of each lens, as what it leads to
  seenView,   \* lastKnownWorldviewFrontiers
  processing, \* isProcessing
  queue,      \* changeQueue
  disposed,
  todo,       \* what the running script has yet to do
  through     \* history: the lens of each change made, in order

vars == <<log, remote, seenWorld, seenView, processing, queue, disposed, todo, through>>

(* An operation: what it does, the document of its peer ("remote" for other*)
(* peers), and the operations its peer had when it made it.                *)
Made(what, peer, after) == [what |-> what, peer |-> peer, after |-> after]
What(ops) == {o.what : o \in ops}

-----------------------------------------------------------------------------
(* filters.ts, and what the lenses here put together from it.              *)
FilterNone(o) == TRUE
FilterByPeers(peers, o) == o.peer \in peers
FilterByMessage(barred, o) == o.what \notin barred
ComposeFilters(results) == \A r \in results : r

Filter(l, o) ==
  IF Trusted[l] = {} THEN FilterNone(o)
  ELSE ComposeFilters({FilterByPeers(Trusted[l], o), FilterByMessage(Barred, o)})

(* Of a batch all that the filter accepts, of each peer up to the first    *)
(* commit that it does not.                                                *)
Accepted(l, batch) ==
  {o \in batch : \A p \in {x \in batch : x = o \/ (x.peer = o.peer /\ x \in o.after)} :
                   Filter(l, p)}

(* Loro applies operations once it has all that they come after; what is   *)
(* missing here was filtered or is the world's own and never follows.      *)
Importable(doc, ops) == {o \in ops : o.after \subseteq doc \cup ops}

-----------------------------------------------------------------------------
(* Steps of a script.                                                      *)
Call(name, lens, arg) == [call |-> name, lens |-> lens, arg |-> arg]

(* Who hears of a commit or an import: lenses as they subscribed, then the *)
(* application.                                                            *)
Event(doc, by) ==
  [i \in 1 .. Len(Listeners[doc]) |->
     LET l == Listeners[doc][i]
     IN Call(IF l = doc THEN "view event" ELSE "world event", l, by)]
  \o IF doc \in Reacting THEN <<Call("react", doc, by)>> ELSE <<>>

Runs(name) == todo # <<>> /\ Head(todo).call = name
Then(steps) == todo' = steps \o Tail(todo)

Init ==
  /\ log = [d \in Docs |-> {}]
  /\ remote = {}
  /\ seenWorld = [l \in Lenses |-> {}] /\ seenView = [l \in Lenses |-> {}]
  /\ processing = [l \in Lenses |-> FALSE]
  /\ queue = [l \in Lenses |-> <<>>]
  /\ disposed = {}
  /\ todo = <<>> /\ through = <<>>

(* change(lens, fn); one that comes while the lens is busy has to wait.    *)
ProcessLocalChange ==
  LET l == Head(todo).lens
      c == Head(todo).arg
  IN /\ Runs("change")
     /\ through' = Append(through, <<l, c>>)
     /\ \/ /\ l \in disposed
           /\ Then(<<>>) /\ UNCHANGED <<processing, queue>>
        \/ /\ l \notin disposed /\ processing[l]
           /\ queue' = [queue EXCEPT ![l] = Append(@, c)]
           /\ Then(<<>>) /\ UNCHANGED processing
        \/ /\ l \notin disposed /\ ~ processing[l]
           /\ processing' = [processing EXCEPT ![l] = TRUE]
           /\ Then(<<Call("apply", l, c), Call("done", l, "")>>)
           /\ UNCHANGED queue
     /\ UNCHANGED <<log, remote, seenWorld, seenView, disposed>>

Fresh == Changes \ {t[2] : t \in Range(through)}

(* applyAndPropagate: the change is made in the worldview.                 *)
ApplyChange ==
  LET l == Head(todo).lens
      o == Made(Head(todo).arg, l, log[l])
  IN /\ Runs("apply")
     /\ log' = [log EXCEPT ![l] = @ \cup {o}]
     /\ Then(Event(l, "local") \o <<Call("propagate", l, log[l])>>)
     /\ UNCHANGED <<remote, seenWorld, seenView, processing, queue, disposed, through>>

(* applyDiff and commit: the world's own peer makes anew what the worldview *)
(* has more than before.                                                   *)
Redone(l, before) ==
  {Made(c, World[l], log[World[l]]) : c \in What(log[l] \ before)}
CarriedOver(l, before) ==
  log' = [log EXCEPT ![World[l]] = @ \cup Redone(l, before)]

Propagate ==
  LET l == Head(todo).lens IN
  /\ Runs("propagate")
  /\ CarriedOver(l, Head(todo).arg)
  /\ Then(Event(World[l], "local") \o <<Call("noted", l, log[l])>>)
  /\ UNCHANGED <<remote, seenWorld, seenView, processing, queue, disposed, through>>

(* Both frontiers move on.                                                 *)
Noted ==
  LET l == Head(todo).lens IN
  /\ Runs("noted")
  /\ seenWorld' = [seenWorld EXCEPT ![l] = log[World[l]]]
  /\ seenView' = [seenView EXCEPT ![l] = Head(todo).arg]
  /\ Then(<<>>)
  /\ UNCHANGED <<log, remote, processing, queue, disposed, through>>

(* processQueue: the lens is free, or goes on with what waited.            *)
Done ==
  LET l == Head(todo).lens IN
  /\ Runs("done")
  /\ IF queue[l] = <<>>
       THEN /\ processing' = [processing EXCEPT ![l] = FALSE]
            /\ Then(<<>>) /\ UNCHANGED queue
       ELSE /\ Then(<<Call("apply", l, Head(queue[l])), Call("done", l, "")>>)
            /\ queue' = [queue EXCEPT ![l] = Tail(@)]
            /\ UNCHANGED processing
  /\ UNCHANGED <<log, remote, seenWorld, seenView, disposed, through>>

Deaf(l) == l \in disposed \/ processing[l]

(* The world has more: what the filter accepts is imported.                *)
FilterWorldToWorldview ==
  LET l   == Head(todo).lens
      now == log[World[l]]
      new == Importable(log[l], Accepted(l, now \ seenWorld[l])) \ log[l]
  IN /\ Runs("world event")
     /\ IF Deaf(l) \/ seenWorld[l] = now
          THEN Then(<<>>) /\ UNCHANGED <<log, seenWorld, processing>>
          ELSE /\ seenWorld' = [seenWorld EXCEPT ![l] = now]
               /\ processing' = [processing EXCEPT ![l] = TRUE]
               /\ log' = [log EXCEPT ![l] = @ \cup new]
               /\ Then((IF new = {} THEN <<>> ELSE Event(l, "import"))
                       \o <<Call("filtered", l, ""), Call("done", l, "")>>)
     /\ UNCHANGED <<remote, seenView, queue, disposed, through>>

Filtered ==
  LET l == Head(todo).lens IN
  /\ Runs("filtered")
  /\ seenView' = [seenView EXCEPT ![l] = log[l]]
  /\ Then(<<>>)
  /\ UNCHANGED <<log, remote, seenWorld, processing, queue, disposed, through>>

(* A lens of this worldview changed it: that is carried on.                *)
ChainedChange ==
  LET l == Head(todo).lens IN
  /\ Runs("view event")
  /\ IF Deaf(l) \/ Head(todo).arg # "local"
       THEN Then(<<>>) /\ UNCHANGED <<log, processing>>
       ELSE /\ processing' = [processing EXCEPT ![l] = TRUE]
            /\ CarriedOver(l, seenView[l])
            /\ Then(Event(World[l], "local")
                    \o <<Call("noted", l, log[l]), Call("done", l, "")>>)
  /\ UNCHANGED <<remote, seenWorld, seenView, queue, disposed, through>>

(* The application hears of a change of the worldview and makes another.   *)
React ==
  /\ Runs("react")
  /\ \/ Then(<<>>)
     \/ \E c \in Fresh : Then(<<Call("change", Head(todo).lens, c)>>)
  /\ UNCHANGED <<log, remote, seenWorld, seenView, processing, queue, disposed, through>>

-----------------------------------------------------------------------------
(* The application starts a script, or another peer's operations arrive.   *)
Change(l, c) ==
  /\ todo = <<>> /\ c \in Fresh
  /\ todo' = <<Call("change", l, c)>>
  /\ UNCHANGED <<log, remote, seenWorld, seenView, processing, queue, disposed, through>>

(* Another peer has what the root had, or nothing but what it made itself. *)
Write(r) ==
  /\ todo = <<>> /\ r \in Remotes \ What(remote)
  /\ \E base \in {log[Root], {}} :
       remote' = remote \cup {Made(r, "remote", base \cup remote)}
  /\ UNCHANGED <<log, seenWorld, seenView, processing, queue, disposed, todo, through>>

Import(batch) ==
  /\ todo = <<>> /\ batch # {} /\ batch \subseteq remote \ log[Root]
  /\ \A o \in batch : o.after \subseteq log[Root] \cup batch
  /\ log' = [log EXCEPT ![Root] = @ \cup batch]
  /\ todo' = Event(Root, "import")
  /\ UNCHANGED <<remote, seenWorld, seenView, processing, queue, disposed, through>>

Dispose(l) ==
  /\ todo = <<>> /\ l \notin disposed
  /\ disposed' = disposed \cup {l}
  /\ UNCHANGED <<log, remote, seenWorld, seenView, processing, queue, todo, through>>

Next ==
  \/ ProcessLocalChange \/ ApplyChange \/ Propagate \/ Noted \/ Done
  \/ FilterWorldToWorldview \/ Filtered \/ ChainedChange \/ React
  \/ \E l \in Lenses : Dispose(l) \/ \E c \in Changes : Change(l, c)
  \/ \E r \in Remotes : Write(r)
  \/ \E batch \in SUBSET remote : Import(batch)

Spec == Init /\ [][Next]_vars

-----------------------------------------------------------------------------
Above(l) == {d \in Docs : d = World[l] \/ (World[l] \in Lenses /\ d = World[World[l]])}

(* README.md:357: at rest every change made through a lens in use is in    *)
(* its worldview and in every document it looks at, however changes were   *)
(* made in answer to each other.                                           *)
ChangesArrive ==
  todo = <<>> => \A i \in DOMAIN through :
    LET l == through[i][1]
    IN disposed = {} => \A d \in Above(l) \cup {l} : through[i][2] \in What(log[d])

(* What a lens carries over is done once in the world, never again by an   *)
(* event that the lens causes itself.                                      *)
DoneOnce ==
  \A d \in Docs : \A o, p \in log[d] : o.what = p.what => o = p

(* What the filter of a lens does not accept, and what comes after that,   *)
(* its worldview never shows.                                              *)
RejectedIsHidden ==
  \A l \in Lenses : \A o \in log[l] : o.peer # l => Filter(l, o)

(* Changes that had to wait are made in the order of the calls.            *)
InOrder ==
  \A l \in Lenses : \A i, j \in DOMAIN through :
    (i < j /\ through[i][1] = l /\ through[j][1] = l) =>
      \A o \in log[l] : o.peer = l /\ o.what = through[j][2] /\ disposed = {} =>
        \E p \in o.after : p.what = through[i][2]

(* At rest a lens is free and has nothing waiting.                         *)
RestIsFree ==
  todo = <<>> => \A l \in Lenses : ~ processing[l] /\ queue[l] = <<>>

(* filters.ts:11: "Accept all commits": at rest what other peers made, and *)
(* the filter accepts, shows in the worldview.                             *)
AcceptedIsShown ==
  todo = <<>> => \A l \in Lenses \ disposed : World[l] = Root =>
    \A o \in log[Root] :
      o.peer = "remote" /\ (\A p \in o.after \cup {o} : p.peer = "remote" => Filter(l, p)) =>
        o \in log[l]
=============================================================================
