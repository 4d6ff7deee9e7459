----------------------- MODULE StorageAdapter_proofs -----------------------
(***************************************************************************)
(* Proofs about StorageAdapter, for every set of documents, operations and *)
(* tasks and every number of failures, restarts and deletions, as long as  *)
(* the clock is not set back and a range read finds no chunk of another    *)
(* document.                                                               *)
(***************************************************************************)
EXTENDS StorageAdapter, FiniteSetTheorems, SequenceTheorems, TLAPS

-----------------------------------------------------------------------------
(* Messages to the adapter, its tasks, and the chunks of the back end.     *)
Messages ==
  [type : {"sync-request"}, doc : Docs, from : SUBSET Ops]
  \cup [type : {"data"}, doc : Docs, ops : SUBSET Ops]
  \cup [type : {"delete-request"}, doc : Docs]
  \cup [type : {"establish-request"}]

Keys == Nat \X Nat

Chunks == [doc : Docs, key : Keys, ops : SUBSET Ops]

TaskRecords ==
  [todo : Seq(Messages), stage : {"begun", "read", "waiting", "settled"}, key : Keys,
   floor : SUBSET Ops, got : SUBSET Ops]

(* A task that has settled has nothing to do; only a sync-request reads.   *)
Task ==
  {x \in TaskRecords :
     /\ x.todo = <<>> <=> x.stage = "settled"
     /\ x.stage = "read" => Head(x.todo).type = "sync-request"}

Resting == {x \in Task : x.stage \in {"waiting", "settled"}}

StoreType ==
  /\ store \subseteq Chunks
  /\ clock \in Nat /\ stamp \in Keys /\ stamp[1] <= clock
  /\ tasks \in [Tasks -> Task]

RepoType ==
  /\ documents \subseteq Docs /\ subscribed \subseteq Docs
  /\ oplog \in [Docs -> SUBSET Ops]
  /\ believed \in [Docs -> Awareness]

Typed == StoreType /\ RepoType

(* What the chunks of st hold of document d.                               *)
SavedAt(st, d) == UNION {k.ops : k \in {c \in st : c.doc = d}}

LEMMA SavedIs ==
  ASSUME NEW d
  PROVE  Saved(d) = SavedAt(store, d)
BY DEF Saved, Held, SavedAt

LEMMA HeldType ==
  ASSUME store \subseteq Chunks, NEW D
  PROVE  Held(D) \subseteq Ops
BY DEF Held, Chunks

LEMMA SettledType == Settled \in Resting /\ Settled.todo = <<>> /\ Settled.stage = "settled"
<1>1. <<>> \in Seq(Messages)
  BY EmptySeq
<1> DEFINE w == Waiting(<<>>)
<1>2. w \in TaskRecords /\ w.todo = <<>> /\ Settled = [w EXCEPT !.stage = "settled"]
  BY <1>1 DEF Waiting, Settled, TaskRecords, Keys
<1> HIDE DEF w
<1>3. Settled \in TaskRecords /\ Settled.todo = <<>> /\ Settled.stage = "settled"
  BY <1>2 DEF TaskRecords
<1> QED BY <1>3 DEF Resting, Task

LEMMA WaitingType ==
  ASSUME NEW s \in Seq(Messages), s # <<>>
  PROVE  Waiting(s) \in Resting /\ Waiting(s).todo = s
BY DEF Waiting, Resting, Task, TaskRecords, Keys

LEMMA FirstMessage ==
  ASSUME NEW s \in Seq(Messages), s # <<>>
  PROVE  Head(s) \in Messages /\ Tail(s) \in Seq(Messages) /\ Head(s) = s[1]
         /\ Len(s) \in Nat /\ Len(s) >= 1 /\ Len(Tail(s)) = Len(s) - 1
BY HeadTailProperties, LenProperties, EmptySeq

LEMMA StampType ==
  ASSUME clock \in Nat, stamp \in Keys
  PROVE  NextStamp \in Keys /\ NextStamp[1] = clock
BY DEF NextStamp, Keys

LEMMA BegunType ==
  ASSUME StoreType, NEW s \in Seq(Messages), s # <<>>
  PROVE  /\ Begun(s) \in Task /\ Begun(s).todo = s /\ Begun(s).stage = "begun"
         /\ Head(s).type = "data" => Begun(s).key = NextStamp
         /\ Head(s).type = "sync-request" => Begun(s).floor = SavedAt(store, Head(s).doc)
<1> DEFINE k == IF Head(s).type = "data" THEN NextStamp ELSE <<0, 0>>
           f == IF Head(s).type = "sync-request" THEN Saved(Head(s).doc) ELSE {}
<1>1. Begun(s) = [todo |-> s, stage |-> "begun", key |-> k, floor |-> f, got |-> {}]
  BY DEF Begun
<1>2. k \in Keys
  BY StampType DEF StoreType, Keys
<1>3. f \subseteq Ops
  BY HeldType DEF StoreType, Saved
<1> HIDE DEF k, f
<1>4. Begun(s) \in Task /\ Begun(s).todo = s /\ Begun(s).stage = "begun"
      /\ Begun(s).key = k /\ Begun(s).floor = f
  BY <1>1, <1>2, <1>3 DEF Task, TaskRecords
<1> QED BY <1>4, SavedIs DEF k, f

(* Sequences of all elements of a finite set.                              *)
LEMMA SendSeqs ==
  ASSUME NEW S, IsFiniteSet(S), NEW s \in SetToSeqs(S)
  PROVE  s \in Seq(S) /\ \A m \in S : \E i \in 1 .. Len(s) : s[i] = m
<1> DEFINE n == Cardinality(S)
<1>1. n \in Nat
  BY FS_CardinalityType
<1>2. s \in [1 .. n -> S] /\ \A i, j \in 1 .. n : i # j => s[i] # s[j]
  BY DEF SetToSeqs
<1>3. IsFiniteSet(1 .. n) /\ Cardinality(1 .. n) = n
  <2>1. IsFiniteSet(1 .. n) /\ Cardinality(1 .. n) = IF 1 > n THEN 0 ELSE n - 1 + 1
    BY <1>1, FS_Interval
  <2> QED BY <1>1, <2>1
<1>4. s \in Injection(1 .. n, S)
  BY <1>2 DEF Injection, IsInjective
<1>5. s \in Surjection(1 .. n, S)
  BY <1>3, <1>4, FS_Injection
<1>6. \A m \in S : \E i \in 1 .. n : s[i] = m
  BY <1>5 DEF Surjection
<1>7. s \in Seq(S) /\ Len(s) = n
  BY <1>1, <1>2
<1> QED BY <1>6, <1>7

-----------------------------------------------------------------------------
(* The messages of a sequence, and those the tasks T are to handle.        *)
Msgs(s) == {s[i] : i \in 1 .. Len(s)}

Left(T) == UNION {Msgs(T[u].todo) : u \in Tasks}

Under == Left(tasks)

LEMMA NoMsgs == Msgs(<<>>) = {}
BY DEF Msgs

LEMMA OneMsg ==
  ASSUME NEW m
  PROVE  Msgs(<<m>>) = {m}
BY DEF Msgs

LEMMA OneIsSeq ==
  ASSUME NEW m \in Messages
  PROVE  <<m>> \in Seq(Messages) /\ <<m>> # <<>> /\ Head(<<m>>) = m
OBVIOUS

LEMMA HeadIsMsg ==
  ASSUME NEW s \in Seq(Messages), s # <<>>
  PROVE  Head(s) \in Msgs(s) /\ Msgs(s) \subseteq {Head(s)} \cup Msgs(Tail(s))
<1>1. Len(s) \in Nat /\ Len(s) >= 1 /\ Head(s) = s[1]
  BY FirstMessage
<1>2. Len(Tail(s)) = Len(s) - 1 /\ \A i \in 1 .. Len(s) - 1 : Tail(s)[i] = s[i + 1]
  BY HeadTailProperties
<1>3. ASSUME NEW i \in 1 .. Len(s), i # 1 PROVE s[i] \in Msgs(Tail(s))
  <2>1. i - 1 \in 1 .. Len(s) - 1 /\ Tail(s)[i - 1] = s[i]
    BY <1>1, <1>2, <1>3
  <2> QED BY <1>2, <2>1 DEF Msgs
<1>4. Msgs(s) \subseteq {Head(s)} \cup Msgs(Tail(s))
  BY <1>1, <1>3 DEF Msgs
<1>5. Head(s) \in Msgs(s)
  BY <1>1 DEF Msgs
<1> QED BY <1>4, <1>5

LEMMA TailIsEmpty ==
  ASSUME NEW s \in Seq(Messages), s # <<>>
  PROVE  Tail(s) = <<>> <=> Len(s) = 1
<1>1. Tail(s) \in Seq(Messages) /\ Len(s) \in Nat /\ Len(Tail(s)) = Len(s) - 1
  BY FirstMessage
<1>2. Tail(s) = <<>> <=> Len(Tail(s)) = 0
  <2> DEFINE w == Tail(s)
  <2>1. w \in Seq(Messages)
    BY <1>1
  <2> HIDE DEF w
  <2>2. w = <<>> <=> Len(w) = 0
    BY <2>1, EmptySeq
  <2> QED BY <2>2 DEF w
<1> QED BY <1>1, <1>2

(* A task that is done with its first message.                             *)
LEMMA DoneType ==
  ASSUME StoreType, NEW t \in Tasks, tasks[t].todo # <<>>
  PROVE  /\ Done(t) \in [Tasks -> Task]
         /\ \A u \in Tasks : Done(t)[u] = tasks[u] \/ Done(t)[u] \in Resting
         /\ Done(t)[t] \in Resting
         /\ \A u \in Tasks : u # t => Done(t)[u] = tasks[u]
         /\ Under \subseteq {Head(tasks[t].todo)} \cup Left(Done(t))
<1> DEFINE s == tasks[t].todo
           x == IF Len(s) = 1 THEN Settled ELSE Waiting(Tail(s))
<1>1. tasks \in [Tasks -> Task] /\ s \in Seq(Messages) /\ s # <<>>
  BY DEF StoreType, Task, TaskRecords
<1>2. Done(t) = [tasks EXCEPT ![t] = x]
  BY DEF Done
<1>3. x \in Resting /\ Msgs(x.todo) = Msgs(Tail(s))
  <2>1. Tail(s) \in Seq(Messages) /\ Len(s) \in Nat /\ Len(s) >= 1 /\ Len(Tail(s)) = Len(s) - 1
    BY <1>1, FirstMessage
  <2>0. Tail(s) = <<>> <=> Len(s) = 1
    BY <1>1, TailIsEmpty
  <2>2. CASE Len(s) = 1
    <3>1. Tail(s) = <<>>
      BY <2>0, <2>2
    <3>2. x = Settled
      BY <2>2
    <3> HIDE DEF x, s
    <3> QED BY <3>1, <3>2, SettledType
  <2>3. CASE Len(s) # 1
    <3>1. Tail(s) # <<>>
      BY <2>0, <2>3
    <3>2. x = Waiting(Tail(s))
      BY <2>3
    <3> HIDE DEF x, s
    <3> QED BY <2>1, <3>1, <3>2, WaitingType
  <2> QED BY <2>2, <2>3
<1>4. x \in Task
  BY <1>3 DEF Resting
<1> HIDE DEF x
<1>5. \A u \in Tasks : Done(t)[u] = IF u = t THEN x ELSE tasks[u]
  BY <1>1, <1>2
<1>6. Done(t) \in [Tasks -> Task]
  BY <1>1, <1>2, <1>4
<1>7. Under \subseteq {Head(s)} \cup Left(Done(t))
  <2> SUFFICES ASSUME NEW u \in Tasks, NEW m \in Msgs(tasks[u].todo), m # Head(s)
               PROVE  m \in Left(Done(t))
    BY DEF Under, Left
  <2>1. m \in Msgs(Done(t)[u].todo)
    <3>1. CASE u = t
      BY <1>1, <1>3, <1>5, <3>1, HeadIsMsg
    <3>2. CASE u # t
      BY <1>5, <3>2
    <3> QED BY <3>1, <3>2
  <2> QED BY <2>1 DEF Left
<1> QED BY <1>3, <1>5, <1>6, <1>7

(* Tasks go on or rest, and one at most begins: no chunk is written.       *)
Begins(t, s) ==
  s \in Seq(Messages) /\ s # <<>> /\ tasks'[t] = Begun(s) /\ StampFor(Head(s))

GoesOn(u) == tasks'[u] = tasks[u] \/ tasks'[u] \in Resting

Moved ==
  /\ UNCHANGED <<store, clock>>
  /\ tasks' \in [Tasks -> Task]
  /\ \/ stamp' = stamp /\ \A u \in Tasks : GoesOn(u)
     \/ \E t \in Tasks, s \in Seq(Messages) :
          Begins(t, s) /\ \A u \in Tasks : u = t \/ GoesOn(u)

LEMMA SendMoves ==
  ASSUME StoreType, UNCHANGED <<store, clock>>, NEW T \in [Tasks -> Task],
         \A u \in Tasks : T[u] = tasks[u] \/ T[u] \in Resting,
         NEW s \in Seq(Messages), Send(T, s)
  PROVE  Moved
<1>1. CASE s = <<>>
  <2>1. tasks' = T /\ stamp' = stamp
    BY <1>1 DEF Send
  <2> QED BY <2>1 DEF Moved, GoesOn
<1>2. CASE s # <<>>
  <2>1. PICK t \in Tasks : tasks' = [T EXCEPT ![t] = Begun(s)]
    BY <1>2 DEF Send
  <2>2. StampFor(Head(s))
    BY <1>2 DEF Send
  <2>3. Begun(s) \in Task
    BY <1>2, BegunType
  <2>4. tasks' \in [Tasks -> Task] /\ Begins(t, s)
    BY <1>2, <2>1, <2>2, <2>3 DEF Begins
  <2>5. \A u \in Tasks : u = t \/ GoesOn(u)
    BY <2>1 DEF GoesOn
  <2> QED BY <2>4, <2>5 DEF Moved
<1> QED BY <1>1, <1>2

LEMMA SendLeft ==
  ASSUME NEW T \in [Tasks -> Task], NEW s \in Seq(Messages), StoreType, Send(T, s)
  PROVE  Under' = Left(T) \cup Msgs(s)
<1>1. CASE s = <<>>
  BY <1>1, NoMsgs DEF Send, Under
<1>2. CASE s # <<>>
  <2>1. PICK t \in Tasks : T[t] = Settled /\ tasks' = [T EXCEPT ![t] = Begun(s)]
    BY <1>2 DEF Send
  <2>2. Begun(s).todo = s
    BY <1>2, BegunType
  <2>3. Msgs(T[t].todo) = {} /\ Msgs(tasks'[t].todo) = Msgs(s)
    BY <2>1, <2>2, SettledType, NoMsgs
  <2>4. \A u \in Tasks : u # t => tasks'[u] = T[u]
    BY <2>1
  <2>5. Under' = UNION {Msgs(tasks'[u].todo) : u \in Tasks}
    BY DEF Under, Left
  <2> QED BY <2>3, <2>4, <2>5 DEF Left
<1> QED BY <1>1, <1>2

LEMMA MovedTyped ==
  ASSUME StoreType, Moved
  PROVE  StoreType'
<1>1. stamp' \in Keys /\ stamp'[1] <= clock
  <2>1. CASE stamp' = stamp
    BY <2>1 DEF StoreType
  <2>2. ASSUME NEW s, StampFor(s)
        PROVE  stamp' \in Keys /\ stamp'[1] <= clock
    BY <2>2, StampType DEF StampFor, StoreType
  <2> QED BY <2>1, <2>2 DEF Moved, Begins
<1> QED BY <1>1 DEF Moved, StoreType

-----------------------------------------------------------------------------
(* Types of what the Repo computes.                                        *)
LEMMA VersionType ==
  ASSUME NEW S \in SUBSET Ops
  PROVE  Applied(S) \in SUBSET Ops
BY DEF Applied

LEMMA MessageTypes ==
  /\ \A d \in Docs, v \in SUBSET Ops : SyncRequest(d, v) \in Messages /\ Data(d, v) \in Messages
  /\ \A d \in Docs : DeleteRequest(d) \in Messages
  /\ EstablishRequest \in Messages
BY DEF Messages, SyncRequest, Data, DeleteRequest, EstablishRequest

LEMMA BeliefTypes ==
  Unknown \in Awareness /\ Pending \in Awareness /\ \A v \in SUBSET Ops : Synced(v) \in Awareness
BY DEF Awareness, Unknown, Pending, Synced

LEMMA AnswerType ==
  ASSUME NEW d \in Docs, NEW v \in SUBSET Ops, NEW h \in SUBSET Ops
  PROVE  AnswerTo(d, v, h) \in Seq(Messages)
<1>1. v \ h \in SUBSET Ops
  OBVIOUS
<1>2. Data(d, v) \in Messages /\ Data(d, v \ h) \in Messages
  BY <1>1, MessageTypes
<1>3. /\ <<>> \in Seq(Messages) /\ <<Data(d, v)>> \in Seq(Messages)
      /\ <<Data(d, v \ h)>> \in Seq(Messages)
  BY <1>2, OneIsSeq, EmptySeq
<1> QED BY <1>3 DEF AnswerTo

LEMMA ListType ==
  ASSUME NEW S, S \subseteq Messages, IsFiniteSet(S), NEW s \in SetToSeqs(S)
  PROVE  s \in Seq(Messages) /\ \A m \in S : m \in Msgs(s)
<1>1. s \in Seq(S) /\ \A m \in S : \E i \in 1 .. Len(s) : s[i] = m
  BY SendSeqs
<1>2. s \in Seq(Messages)
  BY <1>1
<1> QED BY <1>1, <1>2 DEF Msgs

LEMMA ImageFinite ==
  ASSUME NEW S, IsFiniteSet(S), NEW T, NEW f \in [S -> T], T = {f[x] : x \in S}
  PROVE  IsFiniteSet(T)
<1>1. f \in Surjection(S, T)
  BY DEF Surjection
<1> QED BY <1>1, FS_Surjection

(* A document's log and what the Repo believes of it.                      *)
LEMMA EnsureTyped ==
  ASSUME Typed, NEW d \in Docs, DocEnsure(d)
  PROVE  Moved /\ RepoType'
<1> DEFINE s == IF channel = "established" THEN <<SyncRequest(d, {})>> ELSE <<>>
<1>1. s \in Seq(Messages)
  <2>1. SyncRequest(d, {}) \in Messages
    BY MessageTypes
  <2> QED BY <2>1, OneIsSeq, EmptySeq
<1>2. Send(tasks, s)
  BY DEF DocEnsure
<1> HIDE DEF s
<1>3. Moved
  BY <1>1, <1>2, SendMoves DEF DocEnsure, Typed, StoreType
<1>4. RepoType'
  BY DEF DocEnsure, Typed, RepoType
<1> QED BY <1>3, <1>4

LEMMA DeleteTyped ==
  ASSUME Typed, NEW d \in Docs, DocDelete(d)
  PROVE  Moved /\ RepoType'
<1> DEFINE s == IF d \in subscribed THEN <<DeleteRequest(d)>> ELSE <<>>
<1>1. s \in Seq(Messages)
  BY MessageTypes, OneIsSeq, EmptySeq
<1>2. Send(tasks, s)
  BY DEF DocDelete
<1> HIDE DEF s
<1>3. Moved
  BY <1>1, <1>2, SendMoves DEF DocDelete, Typed, StoreType
<1>4. RepoType'
  BY DEF DocDelete, Typed, RepoType
<1> QED BY <1>3, <1>4

LEMMA FirstTyped ==
  ASSUME Typed, NEW d \in Docs, NEW o \in Ops, FirstChange(d, o)
  PROVE  Moved /\ RepoType'
<1> DEFINE v == Applied(oplog[d] \cup {o})
           told == channel = "established" /\ ShouldSync(v, believed[d])
           s == IF told THEN <<Data(d, v)>> ELSE <<>>
<1>1. v \in SUBSET Ops
  BY VersionType DEF Typed, RepoType
<1>2. s \in Seq(Messages)
  BY <1>1, MessageTypes, OneIsSeq, EmptySeq
<1>3. Send(tasks, s)
  BY DEF FirstChange
<1> HIDE DEF s
<1>4. Moved
  BY <1>2, <1>3, SendMoves DEF FirstChange, Typed, StoreType
<1>5. /\ oplog' = [oplog EXCEPT ![d] = @ \cup {o}] /\ documents' = documents
      /\ subscribed' = (IF told THEN subscribed \cup {d} ELSE subscribed)
      /\ believed' = IF told THEN [believed EXCEPT ![d] = Pending] ELSE believed
  BY DEF FirstChange
<1> HIDE DEF told
<1>6. RepoType'
  BY <1>5, BeliefTypes DEF Typed, RepoType
<1> QED BY <1>4, <1>6

(* Operations that come in one batch.                                      *)
LogWith(S, d) == oplog[d] \cup {o \in S : DocOf[o] = d}

Updated(S) == {d \in {DocOf[o] : o \in S} : NeedsUpdate(Applied(LogWith(S, d)), believed[d])}

UpdateOf(S, d) == Data(d, Delta(Applied(LogWith(S, d)), believed[d]))

LEMMA ChangeIs ==
  ASSUME NEW S, Change(S)
  PROVE  /\ \A o \in S : DocOf[o] \in documents \cap subscribed
         /\ oplog' = [d \in Docs |-> LogWith(S, d)]
         /\ believed' = Believe(S)
         /\ \E s \in SetToSeqs({UpdateOf(S, d) : d \in Updated(S)}) : Send(tasks, s)
         /\ UNCHANGED <<store, clock, channel, documents, subscribed, flush, lost, count>>
BY DEF Change, LogWith, Updated, UpdateOf

LEMMA UpdatesTyped ==
  ASSUME Typed, NEW S \in SUBSET Ops
  PROVE  /\ {UpdateOf(S, d) : d \in Updated(S)} \subseteq Messages
         /\ IsFiniteSet({UpdateOf(S, d) : d \in Updated(S)})
         /\ \A d \in Docs : LogWith(S, d) \in SUBSET Ops /\ Applied(LogWith(S, d)) \in SUBSET Ops
<1>1. \A d \in Docs : LogWith(S, d) \in SUBSET Ops /\ Applied(LogWith(S, d)) \in SUBSET Ops
  BY VersionType DEF Typed, RepoType, LogWith
<1>2. \A v \in SUBSET Ops, x \in Awareness : Delta(v, x) \in SUBSET Ops
  BY DEF Delta
<1>3. \A d \in Docs : UpdateOf(S, d) \in Messages
  <2> SUFFICES ASSUME NEW d \in Docs PROVE UpdateOf(S, d) \in Messages
    OBVIOUS
  <2>1. Delta(Applied(LogWith(S, d)), believed[d]) \in SUBSET Ops
    BY <1>1, <1>2 DEF Typed, RepoType
  <2> QED BY <2>1, MessageTypes DEF UpdateOf
<1>4. Updated(S) \subseteq Docs
  BY OpAssumption DEF Updated
<1>5. IsFiniteSet(Updated(S))
  BY <1>4, DocAssumption, FS_Subset
<1>6. IsFiniteSet({UpdateOf(S, d) : d \in Updated(S)})
  <2> DEFINE f == [d \in Updated(S) |-> UpdateOf(S, d)]
           T == {UpdateOf(S, d) : d \in Updated(S)}
  <2>1. f \in [Updated(S) -> T] /\ T = {f[d] : d \in Updated(S)}
    OBVIOUS
  <2> HIDE DEF f
  <2> QED BY <1>5, <2>1, ImageFinite
<1> QED BY <1>1, <1>3, <1>4, <1>6

LEMMA BelieveType ==
  ASSUME Typed, NEW S \in SUBSET Ops
  PROVE  Believe(S) \in [Docs -> Awareness]
<1>1. \A d \in Docs : Applied(LogWith(S, d)) \in SUBSET Ops
  BY UpdatesTyped
<1>2. \A d \in Docs : Synced(Applied(LogWith(S, d))) \in Awareness
  BY <1>1, BeliefTypes
<1>3. Believe(S) = [d \in Docs |->
         IF /\ \E o \in S : DocOf[o] = d
            /\ d \in subscribed /\ NeedsUpdate(Applied(LogWith(S, d)), believed[d])
           THEN Synced(Applied(LogWith(S, d))) ELSE believed[d]]
  BY DEF Believe, LogWith
<1> QED BY <1>2, <1>3 DEF Typed, RepoType

LEMMA ChangeTyped ==
  ASSUME Typed, NEW S \in SUBSET Ops, Change(S)
  PROVE  Moved /\ RepoType'
<1>1. PICK s \in SetToSeqs({UpdateOf(S, d) : d \in Updated(S)}) : Send(tasks, s)
  BY ChangeIs
<1>2. s \in Seq(Messages)
  BY <1>1, UpdatesTyped, ListType
<1>3. Moved
  BY <1>1, <1>2, ChangeIs, SendMoves DEF Typed, StoreType
<1>4. RepoType'
  <2>1. oplog' = [d \in Docs |-> LogWith(S, d)] /\ \A d \in Docs : LogWith(S, d) \in SUBSET Ops
    BY ChangeIs, UpdatesTyped
  <2>2. oplog' \in [Docs -> SUBSET Ops]
    BY <2>1
  <2>3. believed' \in [Docs -> Awareness]
    BY ChangeIs, BelieveType
  <2>4. UNCHANGED <<documents, subscribed>>
    BY ChangeIs
  <2> QED BY <2>2, <2>3, <2>4 DEF Typed, RepoType
<1> QED BY <1>3, <1>4

-----------------------------------------------------------------------------
(* The steps of a task.                                                    *)
LEMMA WorkingType ==
  ASSUME StoreType, NEW t \in Tasks, NEW type, NEW stage, Working(t, type, stage)
  PROVE  /\ tasks[t] \in Task /\ tasks[t].todo \in Seq(Messages) /\ tasks[t].todo # <<>>
         /\ tasks[t].stage = stage
         /\ Head(tasks[t].todo) \in Messages /\ Head(tasks[t].todo).type = type
         /\ Head(tasks[t].todo) \in Under
<1>1. tasks[t] \in Task /\ tasks[t].todo \in Seq(Messages) /\ tasks[t].todo # <<>>
  BY DEF StoreType, Task, TaskRecords, Working
<1>2. Head(tasks[t].todo) \in Messages
  BY <1>1, FirstMessage
<1>3. Head(tasks[t].todo) \in Msgs(tasks[t].todo)
  BY <1>1, HeadIsMsg
<1> QED BY <1>1, <1>2, <1>3 DEF Working, Under, Left

LEMMA MessageOf ==
  ASSUME NEW m \in Messages
  PROVE  /\ m.type = "data" => m.doc \in Docs /\ m.ops \in SUBSET Ops
         /\ m.type = "sync-request" => m.doc \in Docs /\ m.from \in SUBSET Ops
BY DEF Messages

LEMMA BatchTyped ==
  ASSUME Typed, NEW t \in Tasks, NextInBatch(t)
  PROVE  Moved /\ RepoType'
<1> DEFINE s == tasks[t].todo
<1>1. tasks[t] \in Task /\ s \in Seq(Messages) /\ s # <<>>
  BY DEF Typed, StoreType, Task, TaskRecords, NextInBatch
<1>2. Begun(s) \in Task
  BY <1>1, BegunType DEF Typed
<1>3. tasks' = [tasks EXCEPT ![t] = Begun(s)] /\ StampFor(Head(s))
  BY DEF NextInBatch
<1> HIDE DEF s
<1>4. tasks' \in [Tasks -> Task] /\ Begins(t, s) /\ \A u \in Tasks : u = t \/ GoesOn(u)
  BY <1>1, <1>2, <1>3 DEF Typed, StoreType, Begins, GoesOn
<1>5. Moved
  BY <1>1, <1>4 DEF Moved, NextInBatch
<1>6. RepoType'
  BY DEF NextInBatch, Typed, RepoType, repoVars
<1> QED BY <1>5, <1>6

LEMMA RequestsTyped ==
  ASSUME Typed
  PROVE  /\ {SyncRequest(d, Version(d)) : d \in documents} \subseteq Messages
         /\ IsFiniteSet({SyncRequest(d, Version(d)) : d \in documents})
<1>1. \A d \in Docs : Version(d) \in SUBSET Ops
  BY VersionType DEF Version, Typed, RepoType
<1>2. IsFiniteSet(documents)
  BY DocAssumption, FS_Subset DEF Typed, RepoType
<1>3. IsFiniteSet({SyncRequest(d, Version(d)) : d \in documents})
  <2> DEFINE f == [d \in documents |-> SyncRequest(d, Version(d))]
           T == {SyncRequest(d, Version(d)) : d \in documents}
  <2>1. f \in [documents -> T] /\ T = {f[d] : d \in documents}
    OBVIOUS
  <2> HIDE DEF f
  <2> QED BY <1>2, <2>1, ImageFinite
<1> QED BY <1>1, <1>3, MessageTypes DEF Typed, RepoType

LEMMA EstablishTyped ==
  ASSUME Typed, NEW t \in Tasks, HandleEstablishRequest(t)
  PROVE  Moved /\ RepoType'
<1>1. PICK s \in SetToSeqs({SyncRequest(d, Version(d)) : d \in documents}) : Send(Done(t), s)
  BY DEF HandleEstablishRequest
<1>2. s \in Seq(Messages)
  BY <1>1, RequestsTyped, ListType
<1>3. tasks[t].todo # <<>> /\ UNCHANGED <<store, clock>>
  BY DEF HandleEstablishRequest, Working
<1>4. Moved
  BY <1>1, <1>2, <1>3, DoneType, SendMoves DEF Typed
<1>5. RepoType'
  BY DEF HandleEstablishRequest, Typed, RepoType, repoVars
<1> QED BY <1>4, <1>5

(* The log of a document after a reply.                                    *)
LogAfter(m, h) == IF h \subseteq m.from THEN oplog[m.doc] ELSE oplog[m.doc] \cup (h \ m.from)

LEMMA ReplyIs ==
  ASSUME NEW t \in Tasks, NEW h, Reply(t, h), NEW m, m = Head(tasks[t].todo)
  PROVE  /\ documents' = documents \cup {m.doc}
         /\ oplog' = [oplog EXCEPT ![m.doc] = LogAfter(m, h)]
         /\ subscribed' = subscribed \cup {m.doc}
         /\ believed' = [believed EXCEPT ![m.doc] = Pending]
         /\ Send(Done(t), AnswerTo(m.doc, Applied(LogAfter(m, h)), h))
         /\ FlushSees
         /\ UNCHANGED <<store, clock, channel, lost>>
BY DEF Reply, LogAfter

LEMMA ReplyTyped ==
  ASSUME Typed, NEW t \in Tasks, NEW h \in SUBSET Ops, Reply(t, h),
         NEW stage, Working(t, "sync-request", stage)
  PROVE  Moved /\ RepoType'
<1> DEFINE m == Head(tasks[t].todo)
           s == AnswerTo(m.doc, Applied(LogAfter(m, h)), h)
<1>1. m \in Messages /\ m.type = "sync-request" /\ tasks[t].todo # <<>>
  BY WorkingType DEF Typed
<1>2. m.doc \in Docs
  BY <1>1, MessageOf
<1> HIDE DEF m
<1>3. LogAfter(m, h) \in SUBSET Ops
  BY <1>2 DEF LogAfter, Typed, RepoType
<1>4. s \in Seq(Messages)
  BY <1>2, <1>3, VersionType, AnswerType
<1>5. Send(Done(t), s) /\ UNCHANGED <<store, clock>>
  BY ReplyIs DEF m
<1> HIDE DEF s
<1>6. Moved
  BY <1>1, <1>4, <1>5, DoneType, SendMoves DEF Typed
<1>7. /\ documents' = documents \cup {m.doc}
      /\ oplog' = [oplog EXCEPT ![m.doc] = LogAfter(m, h)]
      /\ subscribed' = subscribed \cup {m.doc}
      /\ believed' = [believed EXCEPT ![m.doc] = Pending]
  BY ReplyIs DEF m
<1>8. RepoType'
  BY <1>2, <1>3, <1>7, BeliefTypes DEF Typed, RepoType
<1> QED BY <1>6, <1>8

LEMMA SettlesTyped ==
  ASSUME Typed, NEW t \in Tasks, SaveFails(t) \/ HandleDeleteRequest(t)
  PROVE  Moved /\ RepoType'
<1>1. /\ tasks[t].todo # <<>> /\ tasks' = Done(t) /\ stamp' = stamp
      /\ UNCHANGED <<store, clock, repoVars>>
  BY DEF SaveFails, HandleDeleteRequest, Working
<1>2. /\ Done(t) \in [Tasks -> Task]
      /\ \A u \in Tasks : Done(t)[u] = tasks[u] \/ Done(t)[u] \in Resting
  BY <1>1, DoneType DEF Typed
<1>3. Moved
  BY <1>1, <1>2 DEF Moved, GoesOn
<1>4. RepoType'
  BY <1>1 DEF Typed, RepoType, repoVars
<1> QED BY <1>3, <1>4

-----------------------------------------------------------------------------
(* The clock is not set back, and a range read finds no chunk of another   *)
(* document: without the first a save replaces a chunk, without the second *)
(* a document takes operations of another.                                 *)
Prudent == ~ ClockBack /\ \A d, e \in Docs : <<d, e>> \in InRange => d = e

LEMMA ReadTyped ==
  ASSUME Typed, NEW t \in Tasks, ChunksRead(t)
  PROVE  Typed'
<1> DEFINE x == tasks[t]
           G == LoadRange(Head(x.todo).doc)
           y == [x EXCEPT !.stage = "read", !.got = G]
<1>1. x \in Task /\ Head(x.todo).type = "sync-request" /\ x.todo # <<>>
  BY WorkingType DEF Typed, ChunksRead
<1>2. G \subseteq Ops
  BY HeldType DEF LoadRange, Typed, StoreType
<1>3. tasks' = [tasks EXCEPT ![t] = y]
  BY DEF ChunksRead
<1> HIDE DEF x, G
<1>4. y \in TaskRecords /\ y.todo = x.todo /\ y.stage = "read"
  BY <1>1, <1>2 DEF Task, TaskRecords
<1> HIDE DEF y
<1>5. y \in Task
  BY <1>1, <1>4 DEF Task
<1>6. tasks' \in [Tasks -> Task]
  BY <1>3, <1>5 DEF Typed, StoreType
<1>7. UNCHANGED <<store, clock, stamp, repoVars>>
  BY DEF ChunksRead
<1> QED BY <1>6, <1>7 DEF Typed, StoreType, RepoType, repoVars

LEMMA SaveTyped ==
  ASSUME Typed, NEW t \in Tasks, SaveDocumentData(t)
  PROVE  Typed'
<1> DEFINE m == Head(tasks[t].todo)
           x == [doc |-> m.doc, key |-> tasks[t].key, ops |-> m.ops]
<1>1. tasks[t] \in Task /\ tasks[t].todo # <<>> /\ m \in Messages /\ m.type = "data"
  BY WorkingType DEF Typed, SaveDocumentData
<1>2. m.doc \in Docs /\ m.ops \in SUBSET Ops /\ tasks[t].key \in Keys
  BY <1>1, MessageOf DEF Task, TaskRecords
<1>3. x \in Chunks
  BY <1>2 DEF Chunks
<1>4. store' \subseteq store \cup {x}
  BY DEF SaveDocumentData
<1>5. tasks' = Done(t) /\ UNCHANGED <<clock, stamp, repoVars>>
  BY DEF SaveDocumentData
<1> HIDE DEF x
<1>6. Done(t) \in [Tasks -> Task]
  BY <1>1, DoneType DEF Typed
<1> QED BY <1>3, <1>4, <1>5, <1>6 DEF Typed, StoreType, RepoType, repoVars

(* A process that has just started.                                        *)
Started(T, t) ==
  T = [x \in Tasks |-> IF x = t
             THEN [Waiting(<<EstablishRequest>>) EXCEPT !.stage = "begun"]
             ELSE Settled]

LEMMA StartedType ==
  ASSUME NEW T, NEW t \in Tasks, Started(T, t)
  PROVE  /\ T \in [Tasks -> Task]
         /\ \A u \in Tasks \ {t} : T[u] = Settled
         /\ T[t].stage = "begun" /\ T[t].todo = <<EstablishRequest>>
<1> DEFINE w == Waiting(<<EstablishRequest>>)
           x == [w EXCEPT !.stage = "begun"]
<1>1. <<EstablishRequest>> \in Seq(Messages) /\ <<EstablishRequest>> # <<>>
  BY MessageTypes, OneIsSeq
<1>2. w \in TaskRecords /\ w.todo = <<EstablishRequest>>
  BY <1>1, WaitingType DEF Resting, Task
<1> HIDE DEF w
<1>3. x \in TaskRecords /\ x.todo = <<EstablishRequest>> /\ x.stage = "begun"
  BY <1>2 DEF TaskRecords
<1>4. \A u \in Tasks : T[u] = IF u = t THEN x ELSE Settled
  BY DEF Started, w
<1> HIDE DEF x
<1>5. x \in Task /\ Settled \in Task
  BY <1>1, <1>3, SettledType DEF Task, Resting
<1>6. T \in [Tasks -> Task]
  BY <1>5 DEF Started, x, w
<1> QED BY <1>3, <1>4, <1>6

LEMMA FreshType ==
  ASSUME documents = {}, oplog = [d \in Docs |-> {}], subscribed = {},
         believed = [d \in Docs |-> Unknown]
  PROVE  RepoType
BY BeliefTypes DEF RepoType

LEMMA InitTyped == Init => Typed
<1> SUFFICES ASSUME Init PROVE Typed
  OBVIOUS
<1>1. \E t \in Tasks : Started(tasks, t)
  BY DEF Init, Started
<1>2. tasks \in [Tasks -> Task]
  BY <1>1, StartedType
<1>3. StoreType
  BY <1>2 DEF Init, StoreType, Keys
<1> QED BY <1>3, FreshType DEF Init, Typed

LEMMA RestartTyped ==
  ASSUME Typed, Restart
  PROVE  Typed' /\ \E t \in Tasks : Started(tasks', t)
<1>1. \E t \in Tasks : Started(tasks', t)
  BY DEF Restart, Started
<1>2. tasks' \in [Tasks -> Task]
  BY <1>1, StartedType
<1>3. StoreType'
  <2>1. /\ store' = store /\ clock' = clock + 1 /\ stamp' = <<0, 0>>
        /\ store \subseteq Chunks /\ clock \in Nat
    BY DEF Restart, Typed, StoreType
  <2>2. stamp' \in Keys /\ stamp'[1] <= clock'
    BY <2>1 DEF Keys
  <2> QED BY <1>2, <2>1, <2>2 DEF StoreType
<1>4. RepoType'
  BY BeliefTypes DEF Restart, RepoType
<1> QED BY <1>1, <1>3, <1>4 DEF Typed

LEMMA IdleTyped ==
  ASSUME Typed, UNCHANGED <<store, clock, stamp, tasks>>
  PROVE  Moved
BY DEF Moved, GoesOn, Typed, StoreType

(* Every step is of one of five kinds.                                     *)
LEMMA Kinds ==
  ASSUME Typed, ~ ClockBack, [Next]_vars
  PROVE  /\ Typed'
         /\ \/ Moved
            \/ \E t \in Tasks : ChunksRead(t) \/ SaveDocumentData(t)
            \/ Restart
            \/ Tick
<1>1. ASSUME Moved, RepoType' PROVE Typed'
  BY <1>1, MovedTyped DEF Typed
<1>2. CASE UNCHANGED vars
  <2>1. RepoType'
    BY <1>2 DEF vars, repoVars, Typed, RepoType
  <2> QED BY <1>1, <1>2, <2>1, IdleTyped DEF vars
<1>3. CASE Application
  <2>1. ASSUME NEW why, FlushCalled(why) PROVE Moved /\ RepoType'
    BY <2>1, IdleTyped DEF FlushCalled, repoVars, Typed, RepoType
  <2>2. Moved /\ RepoType'
    BY <1>3, <2>1, EnsureTyped, DeleteTyped, FirstTyped, ChangeTyped DEF Application
  <2> QED BY <1>1, <2>2
<1>4. ASSUME NEW t \in Tasks, TaskStep(t)
      PROVE  Typed' /\ (Moved \/ ChunksRead(t) \/ SaveDocumentData(t))
  <2>1. CASE ChunksRead(t)
    BY <2>1, ReadTyped
  <2>2. CASE SaveDocumentData(t)
    BY <2>2, SaveTyped
  <2>3. CASE NextInBatch(t)
    BY <1>1, <2>3, BatchTyped
  <2>4. CASE HandleEstablishRequest(t)
    BY <1>1, <2>4, EstablishTyped
  <2>5. CASE HandleSyncRequest(t)
    <3>1. tasks[t] \in Task
      BY DEF Typed, StoreType
    <3>2. Applied(tasks[t].got) \in SUBSET Ops
      BY <3>1, VersionType DEF Task, TaskRecords
    <3>3. Reply(t, Applied(tasks[t].got)) /\ Working(t, "sync-request", "read")
      BY <2>5 DEF HandleSyncRequest
    <3> QED BY <1>1, <3>2, <3>3, ReplyTyped
  <2>6. CASE SyncRequestFails(t)
    <3>1. Reply(t, {}) /\ Working(t, "sync-request", "begun") /\ {} \in SUBSET Ops
      BY <2>6 DEF SyncRequestFails
    <3> QED BY <1>1, <3>1, ReplyTyped
  <2>7. CASE SaveFails(t) \/ HandleDeleteRequest(t)
    BY <1>1, <2>7, SettlesTyped
  <2> QED BY <1>4, <2>1, <2>2, <2>3, <2>4, <2>5, <2>6, <2>7 DEF TaskStep
<1>5. CASE FlushAgain \/ FlushReturns
  <2>1. Moved
    BY <1>5, IdleTyped DEF FlushAgain, FlushReturns
  <2>2. RepoType'
    BY <1>5, BeliefTypes DEF FlushAgain, FlushReturns, repoVars, Typed, RepoType
  <2> QED BY <1>1, <2>1, <2>2
<1>6. CASE Restart
  BY <1>6, RestartTyped
<1>7. CASE Tick
  <2>1. /\ clock' = clock + 1
        /\ UNCHANGED <<store, stamp, tasks, repoVars>>
    BY <1>7 DEF Tick
  <2>2. StoreType'
    BY <2>1 DEF Typed, StoreType, Keys
  <2>3. RepoType'
    BY <2>1 DEF Typed, RepoType, repoVars
  <2> QED BY <1>7, <2>2, <2>3 DEF Typed
<1> QED BY <1>2, <1>3, <1>4, <1>5, <1>6, <1>7 DEF Next

-----------------------------------------------------------------------------
(* Keys: what is stored, or about to be, has a stamp of the past, and no   *)
(* two of them the same.                                                   *)
Past(k, c, s) == k[1] < c \/ (k[1] = c /\ s[1] = c /\ k[2] <= s[2])

Saving(x) == x.stage = "begun" /\ Head(x.todo).type = "data"

KeysInv ==
  /\ \A c \in store : Past(c.key, clock, stamp)
  /\ \A t \in Tasks : Saving(tasks[t]) => Past(tasks[t].key, clock, stamp)
  /\ \A t \in Tasks : Saving(tasks[t]) => \A c \in store : c.key # tasks[t].key
  /\ \A t, u \in Tasks :
       t # u /\ Saving(tasks[t]) /\ Saving(tasks[u]) => tasks[t].key # tasks[u].key

LEMMA NewStamp ==
  ASSUME NEW k \in Keys, clock \in Nat, stamp \in Keys, Past(k, clock, stamp)
  PROVE  k # NextStamp /\ Past(k, clock, NextStamp)
BY DEF Past, NextStamp, Keys

LEMMA StampPast ==
  ASSUME clock \in Nat, stamp \in Keys
  PROVE  Past(NextStamp, clock, NextStamp)
BY DEF Past, NextStamp, Keys

LEMMA LaterPast ==
  ASSUME NEW k \in Keys, clock \in Nat, stamp \in Keys, Past(k, clock, stamp),
         stamp[1] <= clock, NEW s \in Keys
  PROVE  Past(k, clock + 1, s)
BY DEF Past, Keys

LEMMA RestingSavesNothing ==
  ASSUME NEW x \in Resting
  PROVE  ~ Saving(x) /\ x.stage # "begun" /\ x.stage # "read"
BY DEF Resting, Saving

LEMMA MovedKeys ==
  ASSUME Typed, KeysInv, Moved
  PROVE  KeysInv'
<1>0. /\ clock \in Nat /\ stamp \in Keys /\ store' = store /\ clock' = clock
      /\ \A c \in store : c.key \in Keys
      /\ \A u \in Tasks : tasks[u].key \in Keys
  BY DEF Typed, StoreType, Chunks, Task, TaskRecords, Moved
<1>1. CASE stamp' = stamp /\ \A u \in Tasks : GoesOn(u)
  <2>1. \A u \in Tasks : Saving(tasks'[u]) => Saving(tasks[u]) /\ tasks'[u].key = tasks[u].key
    BY <1>1, RestingSavesNothing DEF GoesOn
  <2> QED BY <1>0, <1>1, <2>1 DEF KeysInv
<1>2. ASSUME NEW t \in Tasks, NEW s \in Seq(Messages), Begins(t, s),
             \A u \in Tasks : u = t \/ GoesOn(u)
      PROVE  KeysInv'
  <2>1. \A u \in Tasks : u # t /\ Saving(tasks'[u]) =>
           Saving(tasks[u]) /\ tasks'[u].key = tasks[u].key
    BY <1>2, RestingSavesNothing DEF GoesOn
  <2>2. tasks'[t] = Begun(s) /\ StampFor(Head(s)) /\ s # <<>>
    BY <1>2 DEF Begins
  <2>3. Begun(s).todo = s /\ (Head(s).type = "data" => Begun(s).key = NextStamp)
    BY <2>2, BegunType DEF Typed
  <2>4. CASE Head(s).type = "data"
    <3>1. stamp' = NextStamp /\ tasks'[t].key = NextStamp
      BY <2>2, <2>3, <2>4 DEF StampFor
    <3>2. \A c \in store : c.key # NextStamp /\ Past(c.key, clock, NextStamp)
      BY <1>0, NewStamp DEF KeysInv
    <3>3. \A u \in Tasks : Saving(tasks[u]) =>
             tasks[u].key # NextStamp /\ Past(tasks[u].key, clock, NextStamp)
      BY <1>0, NewStamp DEF KeysInv
    <3>4. Past(NextStamp, clock, NextStamp)
      BY <1>0, StampPast
    <3>5. \A c \in store' : Past(c.key, clock', stamp')
      BY <1>0, <3>1, <3>2
    <3>6. \A u \in Tasks : Saving(tasks'[u]) => Past(tasks'[u].key, clock', stamp')
      BY <1>0, <2>1, <3>1, <3>3, <3>4
    <3>7. \A u \in Tasks : Saving(tasks'[u]) => \A c \in store' : c.key # tasks'[u].key
      BY <1>0, <2>1, <3>1, <3>2 DEF KeysInv
    <3>8. \A u, v \in Tasks : u # v /\ Saving(tasks'[u]) /\ Saving(tasks'[v])
             => tasks'[u].key # tasks'[v].key
      BY <2>1, <3>1, <3>3 DEF KeysInv
    <3> QED BY <3>5, <3>6, <3>7, <3>8 DEF KeysInv
  <2>5. CASE Head(s).type # "data"
    <3>1. stamp' = stamp /\ ~ Saving(tasks'[t])
      BY <2>2, <2>3, <2>5 DEF StampFor, Saving
    <3>2. \A u \in Tasks : Saving(tasks'[u]) => Saving(tasks[u]) /\ tasks'[u].key = tasks[u].key
      BY <2>1, <3>1
    <3> QED BY <1>0, <3>1, <3>2 DEF KeysInv
  <2> QED BY <2>4, <2>5
<1> QED BY <1>1, <1>2 DEF Moved

(* A chunk is added, and none replaced.                                    *)
LEMMA SaveAdds ==
  ASSUME Typed, KeysInv, NEW t \in Tasks, SaveDocumentData(t),
         NEW m, m = Head(tasks[t].todo)
  PROVE  /\ store' = store \cup {[doc |-> m.doc, key |-> tasks[t].key, ops |-> m.ops]}
         /\ m \in Messages /\ m.doc \in Docs /\ m.ops \in SUBSET Ops
         /\ \A d \in Docs : SavedAt(store', d) =
              IF d = m.doc THEN SavedAt(store, d) \cup m.ops ELSE SavedAt(store, d)
<1> DEFINE x == [doc |-> m.doc, key |-> tasks[t].key, ops |-> m.ops]
<1>1. m \in Messages /\ m.type = "data" /\ tasks[t].stage = "begun"
  BY WorkingType DEF Typed, SaveDocumentData
<1>2. m.doc \in Docs /\ m.ops \in SUBSET Ops
  BY <1>1, MessageOf
<1>3. \A c \in store : c.key # tasks[t].key
  BY <1>1 DEF KeysInv, Saving
<1>4. store' = {c \in store : c.doc # m.doc \/ c.key # tasks[t].key} \cup {x}
  BY DEF SaveDocumentData
<1>5. store' = store \cup {x}
  BY <1>3, <1>4
<1>6. \A d \in Docs : SavedAt(store', d) =
        IF d = m.doc THEN SavedAt(store, d) \cup m.ops ELSE SavedAt(store, d)
  <2>1. x.doc = m.doc /\ x.ops = m.ops
    OBVIOUS
  <2> HIDE DEF x
  <2> SUFFICES ASSUME NEW d \in Docs
               PROVE  SavedAt(store', d) =
                        IF d = m.doc THEN SavedAt(store, d) \cup m.ops ELSE SavedAt(store, d)
    OBVIOUS
  <2> QED BY <1>5, <2>1 DEF SavedAt
<1> QED BY <1>2, <1>1, <1>5, <1>6

LEMMA SaveSettles ==
  ASSUME Typed, NEW t \in Tasks, SaveDocumentData(t)
  PROVE  /\ tasks' = Done(t) /\ tasks'[t] \in Resting
         /\ \A u \in Tasks : u # t => tasks'[u] = tasks[u]
         /\ tasks[t].todo # <<>> /\ Saving(tasks[t])
BY DoneType DEF SaveDocumentData, Working, Saving, Typed

LEMMA NextKeys ==
  ASSUME Typed, ~ ClockBack, KeysInv, [Next]_vars
  PROVE  KeysInv'
<1>0. /\ clock \in Nat /\ stamp \in Keys /\ stamp[1] <= clock
      /\ \A c \in store : c.key \in Keys
      /\ \A u \in Tasks : tasks[u].key \in Keys
  BY DEF Typed, StoreType, Chunks, Task, TaskRecords
<1>1. CASE Moved
  BY <1>1, MovedKeys
<1>2. ASSUME NEW t \in Tasks, ChunksRead(t)
      PROVE  KeysInv'
  <2>1. /\ \A u \in Tasks : u # t => tasks'[u] = tasks[u]
        /\ tasks'[t].stage = "read"
    BY <1>2 DEF ChunksRead, Typed, StoreType, Task, TaskRecords
  <2>2. \A u \in Tasks : Saving(tasks'[u]) => u # t
    BY <2>1 DEF Saving
  <2>3. UNCHANGED <<store, clock, stamp>>
    BY <1>2 DEF ChunksRead
  <2> QED BY <2>1, <2>2, <2>3 DEF KeysInv
<1>3. ASSUME NEW t \in Tasks, SaveDocumentData(t)
      PROVE  KeysInv'
  <2> DEFINE m == Head(tasks[t].todo)
             x == [doc |-> m.doc, key |-> tasks[t].key, ops |-> m.ops]
  <2>1. store' = store \cup {x} /\ x.key = tasks[t].key
    BY <1>3, SaveAdds
  <2>2. \A u \in Tasks : Saving(tasks'[u]) => u # t /\ tasks'[u] = tasks[u]
    BY <1>3, SaveSettles, RestingSavesNothing
  <2>3. Saving(tasks[t]) /\ UNCHANGED <<clock, stamp>>
    BY <1>3, SaveSettles DEF SaveDocumentData
  <2> HIDE DEF x
  <2> QED BY <2>1, <2>2, <2>3 DEF KeysInv
<1>4. CASE Restart
  <2>1. PICK t \in Tasks : Started(tasks', t)
    BY <1>4, RestartTyped
  <2>2. \A u \in Tasks : ~ Saving(tasks'[u])
    <3>1. tasks'[t].todo = <<EstablishRequest>> /\ \A u \in Tasks \ {t} : tasks'[u] = Settled
      BY <2>1, StartedType
    <3>2. Head(<<EstablishRequest>>).type # "data"
      BY DEF EstablishRequest
    <3> QED BY <3>1, <3>2, SettledType DEF Saving
  <2>3. store' = store /\ clock' = clock + 1 /\ stamp' = <<0, 0>> /\ <<0, 0>> \in Keys
    BY <1>4 DEF Restart, Keys
  <2>4. \A c \in store' : Past(c.key, clock', stamp')
    BY <1>0, <2>3, LaterPast DEF KeysInv
  <2> QED BY <2>2, <2>4 DEF KeysInv
<1>5. CASE Tick
  <2>1. store' = store /\ clock' = clock + 1 /\ stamp' = stamp /\ tasks' = tasks
    BY <1>5 DEF Tick
  <2>2. \A c \in store : Past(c.key, clock', stamp')
    BY <1>0, <2>1, LaterPast DEF KeysInv
  <2>3. \A u \in Tasks : Saving(tasks[u]) => Past(tasks[u].key, clock', stamp')
    BY <1>0, <2>1, LaterPast DEF KeysInv
  <2> QED BY <2>1, <2>2, <2>3 DEF KeysInv
<1> QED BY <1>1, <1>2, <1>3, <1>4, <1>5, Kinds

-----------------------------------------------------------------------------
(* Reads: what was stored when a read was asked for, and what it saw, is   *)
(* stored for good.                                                        *)
Asking(x) == x.stage = "begun" /\ Head(x.todo).type = "sync-request"

Sound(x, st) ==
  /\ Asking(x) => x.floor \subseteq SavedAt(st, Head(x.todo).doc)
  /\ x.stage = "read" => x.got \subseteq SavedAt(st, Head(x.todo).doc)

FloorInv == \A t \in Tasks : Sound(tasks[t], store)

LEMMA LoadIsSaved ==
  ASSUME Prudent, NEW d \in Docs
  PROVE  LoadRange(d) = SavedAt(store, d)
<1>1. {e \in Docs : <<d, e>> \in InRange} = {d}
  BY BackEndAssumption DEF Prudent
<1> QED BY <1>1, SavedIs DEF LoadRange, Saved

(* What a read does to its task.                                           *)
LEMMA ReadIs ==
  ASSUME Prudent, Typed, NEW t \in Tasks, ChunksRead(t), NEW d, d = Head(tasks[t].todo).doc
  PROVE  /\ d \in Docs /\ Asking(tasks[t]) /\ tasks[t].floor \in SUBSET Ops
         /\ tasks'[t].todo = tasks[t].todo /\ tasks'[t].stage = "read"
         /\ tasks'[t].floor = tasks[t].floor /\ tasks'[t].got = SavedAt(store, d)
         /\ \A u \in Tasks : u # t => tasks'[u] = tasks[u]
         /\ UNCHANGED <<store, clock, stamp>>
<1> DEFINE x == tasks[t]
           G == LoadRange(Head(x.todo).doc)
           y == [x EXCEPT !.stage = "read", !.got = G]
           m == Head(tasks[t].todo)
<1>1. x \in Task /\ m \in Messages /\ m.type = "sync-request" /\ x.stage = "begun"
  BY WorkingType DEF Typed, ChunksRead
<1>2. d \in Docs
  BY <1>1, MessageOf
<1>3. G = SavedAt(store, d)
  BY <1>2, LoadIsSaved
<1>4. tasks' = [tasks EXCEPT ![t] = y] /\ UNCHANGED <<store, clock, stamp>>
  BY DEF ChunksRead
<1>5. Asking(x)
  BY <1>1 DEF Asking
<1> HIDE DEF G, x
<1>6. /\ y.todo = x.todo /\ y.stage = "read" /\ y.floor = x.floor /\ y.got = G
      /\ x.floor \in SUBSET Ops
  BY <1>1 DEF Task, TaskRecords
<1> HIDE DEF y
<1>7. tasks'[t] = y /\ \A u \in Tasks : u # t => tasks'[u] = tasks[u]
  BY <1>4 DEF Typed, StoreType
<1> QED BY <1>2, <1>3, <1>4, <1>5, <1>6, <1>7 DEF x

LEMMA StillSaved ==
  ASSUME Typed, KeysInv, NEW t \in Tasks, SaveDocumentData(t)
  PROVE  \A d \in Docs : SavedAt(store, d) \subseteq SavedAt(store', d)
BY SaveAdds

LEMMA NextFloor ==
  ASSUME Prudent, Typed, KeysInv, FloorInv, [Next]_vars
  PROVE  FloorInv'
<1>0. /\ \A u \in Tasks : tasks[u] \in Task
      /\ \A u \in Tasks : Asking(tasks[u]) \/ tasks[u].stage = "read"
                            => Head(tasks[u].todo).doc \in Docs
  <2> SUFFICES ASSUME NEW u \in Tasks, Asking(tasks[u]) \/ tasks[u].stage = "read"
               PROVE  Head(tasks[u].todo).doc \in Docs
    BY DEF Typed, StoreType
  <2>1. /\ tasks[u] \in TaskRecords /\ tasks[u].todo # <<>>
        /\ Head(tasks[u].todo).type = "sync-request"
    BY DEF Typed, StoreType, Task, Asking
  <2>2. tasks[u].todo \in Seq(Messages)
    BY <2>1 DEF TaskRecords
  <2>3. Head(tasks[u].todo) \in Messages
    BY <2>1, <2>2, FirstMessage
  <2> QED BY <2>1, <2>3, MessageOf
<1>1. ASSUME \A d \in Docs : SavedAt(store, d) \subseteq SavedAt(store', d),
             NEW u \in Tasks, tasks'[u] = tasks[u] \/ tasks'[u] \in Resting
      PROVE  Sound(tasks'[u], store')
  <2>1. CASE tasks'[u] \in Resting
    BY <2>1, RestingSavesNothing DEF Asking, Sound
  <2>2. CASE tasks'[u] = tasks[u]
    <3>1. Sound(tasks[u], store)
      BY DEF FloorInv
    <3> QED BY <1>0, <1>1, <2>2, <3>1 DEF Sound
  <2> QED BY <1>1, <2>1, <2>2
<1>2. CASE Moved
  <2>1. store' = store
    BY <1>2 DEF Moved
  <2>2. CASE \A u \in Tasks : GoesOn(u)
    BY <1>1, <2>1, <2>2 DEF GoesOn, FloorInv
  <2>3. ASSUME NEW t \in Tasks, NEW s \in Seq(Messages), Begins(t, s),
               \A u \in Tasks : u = t \/ GoesOn(u)
        PROVE  FloorInv'
    <3>1. tasks'[t] = Begun(s) /\ s # <<>>
      BY <2>3 DEF Begins
    <3>2. /\ Begun(s).todo = s /\ Begun(s).stage = "begun"
          /\ Head(s).type = "sync-request" => Begun(s).floor = SavedAt(store, Head(s).doc)
      BY <3>1, BegunType DEF Typed
    <3>3. Sound(tasks'[t], store')
      BY <2>1, <3>1, <3>2 DEF Asking, Sound
    <3> QED BY <1>1, <2>1, <2>3, <3>3 DEF GoesOn, FloorInv
  <2> QED BY <1>2, <2>2, <2>3 DEF Moved
<1>3. ASSUME NEW t \in Tasks, ChunksRead(t)
      PROVE  FloorInv'
  <2> DEFINE d == Head(tasks[t].todo).doc
  <2>1. /\ tasks'[t].todo = tasks[t].todo /\ tasks'[t].stage = "read"
        /\ tasks'[t].got = SavedAt(store, d) /\ store' = store
        /\ \A u \in Tasks : u # t => tasks'[u] = tasks[u]
    BY <1>3, ReadIs
  <2>2. Sound(tasks'[t], store')
    BY <2>1 DEF Asking, Sound
  <2> QED BY <1>1, <2>1, <2>2 DEF FloorInv
<1>4. ASSUME NEW t \in Tasks, SaveDocumentData(t)
      PROVE  FloorInv'
  <2>1. \A u \in Tasks : tasks'[u] = tasks[u] \/ tasks'[u] \in Resting
    BY <1>4, SaveSettles
  <2> QED BY <1>1, <1>4, <2>1, StillSaved DEF FloorInv
<1>5. CASE Restart
  <2>1. PICK t \in Tasks : Started(tasks', t)
    BY <1>5, RestartTyped
  <2>2. tasks'[t].stage = "begun" /\ tasks'[t].todo = <<EstablishRequest>>
        /\ \A u \in Tasks \ {t} : tasks'[u] = Settled
    BY <2>1, StartedType
  <2>3. Head(<<EstablishRequest>>).type # "sync-request"
    BY DEF EstablishRequest
  <2>4. \A u \in Tasks : ~ Asking(tasks'[u]) /\ tasks'[u].stage # "read"
    BY <2>2, <2>3, SettledType DEF Asking
  <2> QED BY <2>4 DEF FloorInv, Sound
<1>6. CASE Tick
  <2>1. tasks' = tasks /\ store' = store
    BY <1>6 DEF Tick
  <2> QED BY <1>1, <2>1 DEF FloorInv
<1> QED BY <1>2, <1>3, <1>4, <1>5, <1>6, Kinds DEF Prudent

-----------------------------------------------------------------------------
(* The adapter implements the log.                                         *)
ReadOf(x) ==
  IF x.stage \notin {"begun", "read"} \/ Head(x.todo).type # "sync-request" THEN NoRead
  ELSE [doc |-> Head(x.todo).doc, floor |-> x.floor,
        got |-> IF x.stage = "read" THEN x.got ELSE NoRead]

SavedLog == [d \in Docs |-> Saved(d)]

Reads == [t \in Tasks |-> ReadOf(tasks[t])]

LEMMA LogVars ==
  /\ Log!vars = <<SavedLog, Reads>>
  /\ Log!AskOrLeave <=>
       /\ Reads' \in [Tasks -> {NoRead}
                         \cup {[doc |-> d, floor |-> SavedLog[d], got |-> NoRead] : d \in Docs}
                         \cup {Reads[r] : r \in Tasks}]
       /\ \A r \in Tasks :
            Reads'[r] \in {Reads[r], NoRead}
                            \cup {[doc |-> d, floor |-> SavedLog[d], got |-> NoRead] : d \in Docs}
       /\ SavedLog' = SavedLog
  /\ \A d : Log!Append(d) <=>
       /\ \E S \in SUBSET Ops : SavedLog' = [SavedLog EXCEPT ![d] = @ \cup S]
       /\ Reads' = Reads
  /\ \A r : Log!See(r) <=>
       /\ Reads[r] # NoRead /\ Reads[r].got = NoRead
       /\ \E S \in SUBSET SavedLog[Reads[r].doc] :
            /\ Reads[r].floor \subseteq S
            /\ Reads' = [Reads EXCEPT ![r].got = S]
       /\ SavedLog' = SavedLog
  /\ Log!Init <=> SavedLog = [d \in Docs |-> {}] /\ Reads = [r \in Tasks |-> NoRead]
BY DEF Log!vars, Log!AskOrLeave, Log!Asked, Log!Append, Log!See, Log!Init, SavedLog, Reads, ReadOf

LEMMA ReadsAre ==
  /\ Reads \in [Tasks -> {Reads[t] : t \in Tasks}] /\ \A t \in Tasks : Reads[t] = ReadOf(tasks[t])
  /\ \A d \in Docs : SavedLog[d] = SavedAt(store, d)
BY SavedIs DEF Reads, SavedLog

(* The log and the reads after a step.                                     *)
LEMMA NewReads ==
  /\ Reads' = [t \in Tasks |-> ReadOf(tasks'[t])]
  /\ SavedLog' = [d \in Docs |-> SavedAt(store', d)]
  /\ SavedLog = [d \in Docs |-> SavedAt(store, d)]
  /\ Reads = [t \in Tasks |-> ReadOf(tasks[t])]
BY DEF Reads, SavedLog, ReadOf, Saved, Held, SavedAt

LEMMA RestingReadsNothing ==
  ASSUME NEW x \in Resting
  PROVE  ReadOf(x) = NoRead
BY DEF Resting, ReadOf

LEMMA Leaves ==
  ASSUME store' = store,
         \A t \in Tasks :
           ReadOf(tasks'[t]) \in {ReadOf(tasks[t]), NoRead}
              \cup {[doc |-> d, floor |-> SavedAt(store, d), got |-> NoRead] : d \in Docs}
  PROVE  Log!AskOrLeave
<1> DEFINE Asked == {[doc |-> d, floor |-> SavedLog[d], got |-> NoRead] : d \in Docs}
           Old == {Reads[r] : r \in Tasks}
<1>1. Asked = {[doc |-> d, floor |-> SavedAt(store, d), got |-> NoRead] : d \in Docs}
  BY ReadsAre
<1>2. \A t \in Tasks : Reads[t] = ReadOf(tasks[t]) /\ Reads[t] \in Old
  BY ReadsAre
<1>3. SavedLog' = SavedLog
  BY NewReads
<1> HIDE DEF Asked, Old
<1>4. \A t \in Tasks : ReadOf(tasks'[t]) \in {Reads[t], NoRead} \cup Asked
  BY <1>1, <1>2
<1>5. Reads' \in [Tasks -> {NoRead} \cup Asked \cup Old]
  BY <1>2, <1>4, NewReads
<1>6. \A t \in Tasks : Reads'[t] \in {Reads[t], NoRead} \cup Asked
  BY <1>4, NewReads
<1> QED BY <1>3, <1>5, <1>6, LogVars DEF Asked, Old

LEMMA MovedRefines ==
  ASSUME Typed, Moved
  PROVE  Log!AskOrLeave
<1>1. store' = store
  BY DEF Moved
<1>2. \A u \in Tasks : GoesOn(u) => ReadOf(tasks'[u]) \in {ReadOf(tasks[u]), NoRead}
  BY RestingReadsNothing DEF GoesOn
<1>3. ASSUME NEW t \in Tasks, NEW s \in Seq(Messages), Begins(t, s)
      PROVE  ReadOf(tasks'[t]) \in
               {NoRead} \cup {[doc |-> d, floor |-> SavedAt(store, d), got |-> NoRead] : d \in Docs}
  <2> DEFINE b == Begun(s)
  <2>1. tasks'[t] = b /\ s # <<>>
    BY <1>3 DEF Begins
  <2>2. /\ b.todo = s /\ b.stage = "begun"
        /\ Head(s).type = "sync-request" => b.floor = SavedAt(store, Head(s).doc)
    BY <2>1, BegunType DEF Typed
  <2>3. Head(s).type = "sync-request" => Head(s).doc \in Docs
    BY <2>1, FirstMessage, MessageOf
  <2> HIDE DEF b
  <2>4. CASE Head(s).type = "sync-request"
    <3>1. ReadOf(b) = [doc |-> Head(s).doc, floor |-> SavedAt(store, Head(s).doc), got |-> NoRead]
      BY <2>2, <2>4 DEF ReadOf
    <3> QED BY <2>1, <2>3, <2>4, <3>1
  <2>5. CASE Head(s).type # "sync-request"
    BY <2>1, <2>2, <2>5 DEF ReadOf
  <2> QED BY <2>4, <2>5
<1>4. \A t \in Tasks :
        ReadOf(tasks'[t]) \in {ReadOf(tasks[t]), NoRead}
           \cup {[doc |-> d, floor |-> SavedAt(store, d), got |-> NoRead] : d \in Docs}
  BY <1>2, <1>3 DEF Moved
<1> QED BY <1>1, <1>4, Leaves

LEMMA ReadRefines ==
  ASSUME Prudent, Typed, FloorInv, NEW t \in Tasks, ChunksRead(t)
  PROVE  Log!See(t)
<1> DEFINE d == Head(tasks[t].todo).doc
           f == tasks[t].floor
           S == SavedAt(store, d)
           old == [doc |-> d, floor |-> f, got |-> NoRead]
           new == [doc |-> d, floor |-> f, got |-> S]
<1>1. /\ d \in Docs /\ Asking(tasks[t]) /\ f \in SUBSET Ops
      /\ tasks'[t].todo = tasks[t].todo /\ tasks'[t].stage = "read"
      /\ tasks'[t].floor = f /\ tasks'[t].got = S
      /\ \A u \in Tasks : u # t => tasks'[u] = tasks[u]
      /\ store' = store
  BY ReadIs
<1>2. Reads[t] = old
  BY <1>1, ReadsAre DEF ReadOf, Asking
<1>3. ReadOf(tasks'[t]) = new
  <2>1. Head(tasks'[t].todo).type = "sync-request" /\ Head(tasks'[t].todo).doc = d
    BY <1>1 DEF Asking
  <2> QED BY <1>1, <2>1 DEF ReadOf
<1>4. f \subseteq S
  BY <1>1 DEF FloorInv, Sound
<1>5. S = SavedLog[d]
  BY <1>1, ReadsAre
<1>6. old # NoRead
  BY <1>1, NoReadAssumption
<1> HIDE DEF d, f, S
<1>7. old.doc = d /\ old.floor = f /\ old.got = NoRead /\ [old EXCEPT !.got = S] = new
  OBVIOUS
<1> HIDE DEF old, new
<1>8. Reads' = [Reads EXCEPT ![t] = new]
  <2>1. Reads' = [u \in Tasks |-> ReadOf(tasks'[u])] /\ Reads = [u \in Tasks |-> ReadOf(tasks[u])]
    BY NewReads
  <2>2. \A u \in Tasks : ReadOf(tasks'[u]) = IF u = t THEN new ELSE ReadOf(tasks[u])
    BY <1>1, <1>3
  <2> QED BY <2>1, <2>2
<1>9. Reads' = [Reads EXCEPT ![t].got = S]
  <2>1. [Reads EXCEPT ![t].got = S] = [Reads EXCEPT ![t] = [Reads[t] EXCEPT !.got = S]]
    OBVIOUS
  <2> QED BY <1>2, <1>7, <1>8, <2>1
<1>10. SavedLog' = SavedLog
  BY <1>1, NewReads
<1>11. Reads[t] # NoRead /\ Reads[t].got = NoRead /\ Reads[t].floor \subseteq S
       /\ S \in SUBSET SavedLog[Reads[t].doc]
  BY <1>2, <1>4, <1>5, <1>6, <1>7
<1> QED BY <1>9, <1>10, <1>11, LogVars

LEMMA SaveRefines ==
  ASSUME Typed, KeysInv, NEW t \in Tasks, SaveDocumentData(t)
  PROVE  \E d \in Docs : Log!Append(d)
<1> DEFINE m == Head(tasks[t].todo)
<1>1. /\ m.doc \in Docs /\ m.ops \in SUBSET Ops
      /\ \A d \in Docs : SavedAt(store', d) =
            IF d = m.doc THEN SavedAt(store, d) \cup m.ops ELSE SavedAt(store, d)
  BY SaveAdds
<1>2. ReadOf(tasks'[t]) = NoRead /\ \A u \in Tasks : u # t => tasks'[u] = tasks[u]
  BY SaveSettles, RestingReadsNothing
<1>3. ReadOf(tasks[t]) = NoRead
  BY SaveSettles DEF Saving, ReadOf
<1>4. Reads' = Reads
  <2>1. \A u \in Tasks : ReadOf(tasks'[u]) = ReadOf(tasks[u])
    BY <1>2, <1>3
  <2> QED BY <2>1, NewReads
<1> HIDE DEF m
<1>5. SavedLog' = [SavedLog EXCEPT ![m.doc] = @ \cup m.ops]
  BY <1>1, NewReads
<1>6. \E S \in SUBSET Ops : SavedLog' = [SavedLog EXCEPT ![m.doc] = @ \cup S]
  BY <1>1, <1>5
<1> QED BY <1>1, <1>4, <1>6, LogVars

LEMMA RestartRefines ==
  ASSUME Typed, Restart
  PROVE  Log!AskOrLeave
<1>1. PICK t \in Tasks : Started(tasks', t)
  BY RestartTyped
<1>2. tasks'[t].todo = <<EstablishRequest>> /\ \A u \in Tasks \ {t} : tasks'[u] = Settled
  BY <1>1, StartedType
<1>3. Head(<<EstablishRequest>>).type # "sync-request"
  BY DEF EstablishRequest
<1>4. \A u \in Tasks : ReadOf(tasks'[u]) = NoRead
  BY <1>2, <1>3, SettledType DEF ReadOf
<1> QED BY <1>4, Leaves DEF Restart

LEMMA NextRefines ==
  ASSUME Prudent, Typed, KeysInv, FloorInv, [Next]_vars
  PROVE  [Log!Next]_(Log!vars)
<1>1. CASE Tick
  <2>1. store' = store /\ tasks' = tasks
    BY <1>1 DEF Tick
  <2>2. Log!AskOrLeave
    BY <2>1, Leaves
  <2> QED BY <2>2 DEF Log!Next
<1>2. ASSUME NEW t \in Tasks, ChunksRead(t) PROVE Log!Next
  BY <1>2, ReadRefines DEF Log!Next
<1>3. ASSUME NEW t \in Tasks, SaveDocumentData(t) PROVE Log!Next
  BY <1>3, SaveRefines DEF Log!Next
<1>4. CASE Moved \/ Restart
  BY <1>4, MovedRefines, RestartRefines DEF Log!Next
<1> QED BY <1>1, <1>2, <1>3, <1>4, Kinds DEF Prudent

LEMMA InitRefines == Init => Log!Init
<1> SUFFICES ASSUME Init PROVE Log!Init
  OBVIOUS
<1>1. PICK t \in Tasks : Started(tasks, t)
  BY DEF Init, Started
<1>2. tasks[t].todo = <<EstablishRequest>> /\ \A u \in Tasks \ {t} : tasks[u] = Settled
  BY <1>1, StartedType
<1>3. Head(<<EstablishRequest>>).type # "sync-request"
  BY DEF EstablishRequest
<1>4. \A u \in Tasks : ReadOf(tasks[u]) = NoRead
  BY <1>2, <1>3, SettledType DEF ReadOf
<1>5. \A d : SavedAt(store, d) = {}
  BY DEF Init, SavedAt
<1>6. SavedLog = [d \in Docs |-> {}] /\ Reads = [r \in Tasks |-> NoRead]
  BY <1>4, <1>5, NewReads
<1> QED BY <1>6, LogVars

LEMMA InitKeys == Init => KeysInv /\ FloorInv
<1> SUFFICES ASSUME Init PROVE KeysInv /\ FloorInv
  OBVIOUS
<1>1. PICK t \in Tasks : Started(tasks, t)
  BY DEF Init, Started
<1>2. tasks[t].todo = <<EstablishRequest>> /\ tasks[t].stage = "begun"
      /\ \A u \in Tasks \ {t} : tasks[u] = Settled
  BY <1>1, StartedType
<1>3. Head(<<EstablishRequest>>).type \notin {"sync-request", "data"}
  BY DEF EstablishRequest
<1>4. \A u \in Tasks : ~ Saving(tasks[u]) /\ ~ Asking(tasks[u]) /\ tasks[u].stage # "read"
  BY <1>2, <1>3, SettledType DEF Saving, Asking
<1> QED BY <1>4 DEF Init, KeysInv, FloorInv, Sound

(* What holds of the back end and the tasks, whatever the Repo does.       *)
StoredInv == Typed /\ KeysInv /\ FloorInv

LEMMA Stored == Prudent => (Spec => []StoredInv)
<1> SUFFICES ASSUME Prudent PROVE Spec => []StoredInv
  OBVIOUS
<1>1. Init => StoredInv
  BY InitTyped, InitKeys DEF StoredInv
<1>2. StoredInv /\ [Next]_vars => StoredInv'
  BY Kinds, NextKeys, NextFloor DEF StoredInv, Prudent
<1> QED BY <1>1, <1>2, PTL DEF Spec

LEMMA NextUnique ==
  ASSUME Typed, KeysInv, NEW t \in Tasks, SaveDocumentData(t)
  PROVE  \A c \in store : c.key # tasks[t].key
BY SaveSettles DEF KeysInv

(* A save never takes the key of a chunk that is stored: the counter       *)
(* beside Date.now() tells saves of one millisecond apart, and a restart   *)
(* comes later than the last save before it.                               *)
THEOREM KeysAreUnique == Prudent => (Spec => UniqueKeys)
<1> SUFFICES ASSUME Prudent PROVE Spec => UniqueKeys
  OBVIOUS
<1>1. StoredInv /\ [Next]_vars =>
        [\A t \in Tasks : SaveDocumentData(t) =>
           \A c \in store : c.doc = Head(tasks[t].todo).doc => c.key # tasks[t].key]_vars
  BY NextUnique DEF StoredInv
<1> QED BY <1>1, Stored, PTL DEF Spec, UniqueKeys

(* The adapter implements the durable log: whatever saves, reads, failures *)
(* and restarts do, what is stored stays, and a read sees all that was     *)
(* stored of its document when it was asked for.                           *)
THEOREM Refinement == Prudent => (Spec => ImplementsLog)
<1> SUFFICES ASSUME Prudent PROVE Spec => ImplementsLog
  OBVIOUS
<1>1. StoredInv /\ [Next]_vars => [Log!Next]_(Log!vars)
  BY NextRefines DEF StoredInv
<1> QED BY <1>1, InitRefines, Stored, PTL DEF Spec, ImplementsLog, Log!Spec

-----------------------------------------------------------------------------
(* What the messages U ask for and bring, and what is durable, lost or on  *)
(* its way when they are under way.                                        *)
RequestedIn(U, d) == \E m \in U : m.type = "sync-request" /\ m.doc = d

QueuedIn(U, d) == UNION {m.ops : m \in {x \in U : x.type = "data" /\ x.doc = d}}

DurableIn(st, l, U, d) == SavedAt(st, d) \cup l \cup QueuedIn(U, d)

FlushType ==
  flush \in [for : {"none", "flush", "shutdown"}, waits : SUBSET Tasks,
             owed : [Docs -> SUBSET Ops]]

(* A channel that is not established has the adapter's request before it;  *)
(* one that is removed is flushed no more.                                 *)
Open ==
  /\ channel \in {"connected", "established", "removed"}
  /\ channel = "connected" => EstablishRequest \in Under
  /\ channel = "removed" => flush.for = "none"

(* What the adapter is believed to have is not only in the Repo.           *)
Believed ==
  \A d \in Docs : believed[d].status = "synced" =>
    believed[d].version \subseteq DurableIn(store, lost, Under, d)

(* A document is about to be asked for, or all of it was sent.             *)
Covered ==
  channel = "established" =>
    \A d \in documents :
      \/ RequestedIn(Under, d)
      \/ d \in subscribed /\ Version(d) \subseteq DurableIn(store, lost, Under, d)

(* What a flush owes, the Repo still has.                                  *)
Owed ==
  \A d \in Docs : flush.owed[d] # {} => d \in documents /\ flush.owed[d] \subseteq Version(d)

SafeInv == FlushType /\ Open /\ Believed /\ Covered /\ Owed

(* One message of U is gone in V.                                          *)
LEMMA OneGone ==
  ASSUME NEW U, NEW V, NEW h, U \subseteq {h} \cup V
  PROVE  /\ h.type # "data" => \A d \in Docs : QueuedIn(U, d) \subseteq QueuedIn(V, d)
         /\ \A d \in Docs : QueuedIn(U, d) \subseteq QueuedIn(V, d) \cup h.ops
         /\ \A d \in Docs : h.doc # d => QueuedIn(U, d) \subseteq QueuedIn(V, d)
         /\ \A d \in Docs : RequestedIn(U, d) =>
              RequestedIn(V, d) \/ (h.type = "sync-request" /\ h.doc = d)
         /\ h.type # "establish-request" => (EstablishRequest \in U => EstablishRequest \in V)
<1>1. \A d \in Docs : \A o \in QueuedIn(U, d) :
        o \in QueuedIn(V, d) \/ (h.type = "data" /\ h.doc = d /\ o \in h.ops)
  BY DEF QueuedIn
<1>2. \A d \in Docs : RequestedIn(U, d) =>
        RequestedIn(V, d) \/ (h.type = "sync-request" /\ h.doc = d)
  BY DEF RequestedIn
<1>3. h.type # "establish-request" => (EstablishRequest \in U => EstablishRequest \in V)
  BY DEF EstablishRequest
<1> QED BY <1>1, <1>2, <1>3

LEMMA NoneGone ==
  ASSUME NEW U, NEW V, U \subseteq V
  PROVE  /\ \A d \in Docs : QueuedIn(U, d) \subseteq QueuedIn(V, d)
         /\ \A d \in Docs : RequestedIn(U, d) => RequestedIn(V, d)
BY DEF QueuedIn, RequestedIn

(* Nothing that was under way is forgotten.                                *)
Kept ==
  /\ \A d \in Docs : DurableIn(store, lost, Under, d) \subseteq DurableIn(store', lost', Under', d)
  /\ \A d \in Docs : RequestedIn(Under, d) => RequestedIn(Under', d)
  /\ EstablishRequest \in Under => EstablishRequest \in Under'

LEMMA GrowsKept ==
  ASSUME store' = store, lost' = lost, Under \subseteq Under'
  PROVE  Kept
BY NoneGone DEF Kept, DurableIn

LEMMA VersionGrows ==
  ASSUME NEW S, NEW T, S \subseteq T
  PROVE  Applied(S) \subseteq Applied(T)
BY DEF Applied

(* Steps that leave the Repo as it is.                                     *)
LEMMA KeptIsSafe ==
  ASSUME SafeInv, RepoType, Kept, UNCHANGED <<channel, repoVars>>, FlushType',
         flush'.for = flush.for, flush'.owed = flush.owed
  PROVE  SafeInv'
<1>1. UNCHANGED <<documents, oplog, subscribed, believed>>
  BY DEF repoVars
<1>2. \A d : Version(d)' = Version(d)
  BY <1>1 DEF Version, Applied
<1>3. Open'
  BY DEF SafeInv, Open, Kept
<1>4. Believed'
  BY <1>1 DEF SafeInv, Believed, Kept
<1>5. Covered'
  BY <1>1, <1>2 DEF SafeInv, Covered, Kept, RepoType
<1>6. Owed'
  BY <1>1, <1>2 DEF SafeInv, Owed
<1> QED BY <1>3, <1>4, <1>5, <1>6 DEF SafeInv

LEMMA SeesType ==
  ASSUME FlushType, FlushSees
  PROVE  FlushType' /\ flush'.for = flush.for /\ flush'.owed = flush.owed
BY DEF FlushType, FlushSees

(* What is under way after a task is done with its first message.          *)
LEMMA DoneLeaves ==
  ASSUME StoreType, NEW t \in Tasks, NEW type, NEW stage, Working(t, type, stage),
         NEW s \in Seq(Messages), Send(Done(t), s)
  PROVE  /\ Under \subseteq {Head(tasks[t].todo)} \cup Under'
         /\ Msgs(s) \subseteq Under'
<1>1. /\ Done(t) \in [Tasks -> Task]
      /\ Under \subseteq {Head(tasks[t].todo)} \cup Left(Done(t))
  BY DoneType, WorkingType
<1>2. Under' = Left(Done(t)) \cup Msgs(s)
  BY <1>1, SendLeft
<1> QED BY <1>1, <1>2

LEMMA DoneLeft ==
  ASSUME StoreType, NEW t \in Tasks, NEW type, NEW stage, Working(t, type, stage),
         tasks' = Done(t)
  PROVE  Under \subseteq {Head(tasks[t].todo)} \cup Under'
<1>1. Under' = Left(Done(t))
  BY DEF Under, Left
<1> QED BY <1>1, DoneType, WorkingType

LEMMA SendAdds ==
  ASSUME StoreType, NEW s \in Seq(Messages), Send(tasks, s)
  PROVE  Under \subseteq Under' /\ Msgs(s) \subseteq Under'
BY SendLeft DEF Under, StoreType

-----------------------------------------------------------------------------
(* A step of a task that only settles.                                      *)
LEMMA SettleSafe ==
  ASSUME Typed, SafeInv, NEW t \in Tasks, HandleDeleteRequest(t)
  PROVE  SafeInv'
<1>1. /\ Working(t, "delete-request", "begun")
      /\ tasks' = Done(t) /\ FlushSees
      /\ UNCHANGED <<store, channel, repoVars, lost>>
  BY DEF HandleDeleteRequest
<1> DEFINE h == Head(tasks[t].todo)
<1>2. Under \subseteq {h} \cup Under'
  BY <1>1, DoneLeft DEF Typed
<1>3. h.type \notin {"data", "sync-request", "establish-request"}
  BY <1>1 DEF Working
<1> HIDE DEF h
<1>4. Kept
  BY <1>1, <1>2, <1>3, OneGone DEF Kept, DurableIn
<1>5. FlushType' /\ flush'.for = flush.for /\ flush'.owed = flush.owed
  BY <1>1, SeesType DEF SafeInv
<1> QED BY <1>1, <1>4, <1>5, KeptIsSafe DEF Typed

LEMMA SaveSafe ==
  ASSUME Typed, KeysInv, SafeInv, NEW t \in Tasks, SaveDocumentData(t)
  PROVE  SafeInv'
<1> DEFINE h == Head(tasks[t].todo)
<1>1. /\ Working(t, "data", "begun") /\ tasks' = Done(t) /\ FlushSees
      /\ UNCHANGED <<channel, repoVars, lost>>
  BY DEF SaveDocumentData
<1>2. Under \subseteq {h} \cup Under'
  BY <1>1, DoneLeft DEF Typed
<1>3. /\ h.type = "data"
      /\ \A d \in Docs : SavedAt(store', d) =
            IF d = h.doc THEN SavedAt(store, d) \cup h.ops ELSE SavedAt(store, d)
  BY <1>1, SaveAdds DEF Working
<1> HIDE DEF h
<1>4. Kept
  <2>1. \A d \in Docs : QueuedIn(Under, d) \subseteq QueuedIn(Under', d) \cup h.ops
    BY <1>2, OneGone
  <2>2. \A d \in Docs : h.doc # d => QueuedIn(Under, d) \subseteq QueuedIn(Under', d)
    BY <1>2, OneGone
  <2>3. \A d \in Docs : RequestedIn(Under, d) => RequestedIn(Under', d)
    BY <1>2, <1>3, OneGone
  <2>4. EstablishRequest \in Under => EstablishRequest \in Under'
    BY <1>2, <1>3, OneGone
  <2>5. ASSUME NEW d \in Docs
        PROVE  DurableIn(store, lost, Under, d) \subseteq DurableIn(store', lost', Under', d)
    <3>1. CASE d = h.doc
      BY <1>1, <1>3, <2>1, <3>1 DEF DurableIn
    <3>2. CASE d # h.doc
      BY <1>1, <1>3, <2>2, <3>2 DEF DurableIn
    <3> QED BY <3>1, <3>2
  <2> QED BY <2>3, <2>4, <2>5 DEF Kept
<1>5. FlushType' /\ flush'.for = flush.for /\ flush'.owed = flush.owed
  BY <1>1, SeesType DEF SafeInv
<1> QED BY <1>1, <1>4, <1>5, KeptIsSafe DEF Typed

LEMMA SaveFailsSafe ==
  ASSUME Typed, SafeInv, NEW t \in Tasks, SaveFails(t)
  PROVE  SafeInv'
<1> DEFINE h == Head(tasks[t].todo)
<1>1. /\ Working(t, "data", "begun") /\ tasks' = Done(t) /\ FlushSees
      /\ lost' = lost \cup h.ops
      /\ UNCHANGED <<store, channel, repoVars>>
  BY DEF SaveFails
<1>2. Under \subseteq {h} \cup Under'
  BY <1>1, DoneLeft DEF Typed
<1>3. h.type = "data"
  BY <1>1 DEF Working
<1> HIDE DEF h
<1>4. Kept
  <2>1. \A d \in Docs : QueuedIn(Under, d) \subseteq QueuedIn(Under', d) \cup h.ops
    BY <1>2, OneGone
  <2>2. \A d \in Docs : RequestedIn(Under, d) => RequestedIn(Under', d)
    BY <1>2, <1>3, OneGone
  <2>3. EstablishRequest \in Under => EstablishRequest \in Under'
    BY <1>2, <1>3, OneGone
  <2> QED BY <1>1, <2>1, <2>2, <2>3 DEF Kept, DurableIn
<1>5. FlushType' /\ flush'.for = flush.for /\ flush'.owed = flush.owed
  BY <1>1, SeesType DEF SafeInv
<1> QED BY <1>1, <1>4, <1>5, KeptIsSafe DEF Typed

LEMMA SameUnder ==
  ASSUME \A u \in Tasks : tasks'[u].todo = tasks[u].todo
  PROVE  Under' = Under
BY DEF Under, Left

LEMMA StartSafe ==
  ASSUME Prudent, Typed, SafeInv, NEW t \in Tasks, NextInBatch(t) \/ ChunksRead(t)
  PROVE  SafeInv'
<1>1. \A u \in Tasks : tasks'[u].todo = tasks[u].todo
  <2>1. CASE ChunksRead(t)
    BY <2>1, ReadIs
  <2>2. CASE NextInBatch(t)
    <3> DEFINE s == tasks[t].todo
    <3>1. tasks[t] \in Task /\ s \in Seq(Messages) /\ s # <<>>
      BY <2>2 DEF Typed, StoreType, Task, TaskRecords, NextInBatch
    <3>2. Begun(s).todo = s
      BY <3>1, BegunType DEF Typed
    <3>3. tasks' = [tasks EXCEPT ![t] = Begun(s)]
      BY <2>2 DEF NextInBatch
    <3> HIDE DEF s
    <3>4. tasks'[t] = Begun(s) /\ \A u \in Tasks : u # t => tasks'[u] = tasks[u]
      BY <3>3 DEF Typed, StoreType
    <3> QED BY <3>2, <3>4 DEF s
  <2> QED BY <2>1, <2>2
<1>2. UNCHANGED <<store, channel, repoVars, flush, lost>>
  BY DEF NextInBatch, ChunksRead
<1>3. Kept
  BY <1>1, <1>2, SameUnder, GrowsKept
<1>4. FlushType'
  BY <1>2 DEF SafeInv, FlushType
<1> QED BY <1>2, <1>3, <1>4, KeptIsSafe DEF Typed

LEMMA IdleSafe ==
  ASSUME Typed, SafeInv, UNCHANGED <<store, tasks, channel, repoVars, lost>>,
         FlushAgain \/ flush' = flush
  PROVE  SafeInv'
<1>1. Kept
  BY SameUnder, GrowsKept
<1>2. PendingOps \subseteq Tasks
  BY DEF PendingOps
<1>3. FlushType' /\ flush'.for = flush.for /\ flush'.owed = flush.owed
  BY <1>2 DEF SafeInv, FlushType, FlushAgain
<1> QED BY <1>1, <1>3, KeptIsSafe DEF Typed

-----------------------------------------------------------------------------
(* Steps of the Repo.                                                      *)
LEMMA NoFlushType == NoFlush.for = "none" /\ NoFlush.owed = [d \in Docs |-> {}]
                     /\ NoFlush \in [for : {"none", "flush", "shutdown"}, waits : SUBSET Tasks,
                                     owed : [Docs -> SUBSET Ops]]
BY DEF NoFlush

LEMMA EnsureSafe ==
  ASSUME Typed, SafeInv, NEW d \in Docs, DocEnsure(d)
  PROVE  SafeInv'
<1> DEFINE s == IF channel = "established" THEN <<SyncRequest(d, {})>> ELSE <<>>
<1>1. s \in Seq(Messages)
  <2>1. SyncRequest(d, {}) \in Messages
    BY MessageTypes
  <2> QED BY <2>1, OneIsSeq, EmptySeq
<1>2. /\ Send(tasks, s) /\ documents' = documents \cup {d}
      /\ UNCHANGED <<store, channel, oplog, subscribed, believed, flush, lost>>
  BY DEF DocEnsure
<1>3. channel = "established" => SyncRequest(d, {}) \in Msgs(s)
  BY OneMsg
<1> HIDE DEF s
<1>4. Under \subseteq Under' /\ Msgs(s) \subseteq Under'
  BY <1>1, <1>2, SendAdds DEF Typed
<1>5. Kept
  BY <1>2, <1>4, GrowsKept
<1>6. \A e : Version(e)' = Version(e)
  BY <1>2 DEF Version, Applied
<1>7. channel = "established" => RequestedIn(Under', d)
  BY <1>3, <1>4 DEF RequestedIn, SyncRequest
<1>8. FlushType' /\ Open' /\ Believed'
  BY <1>2, <1>5 DEF SafeInv, FlushType, Open, Believed, Kept
<1>9. Covered'
  BY <1>2, <1>5, <1>6, <1>7 DEF SafeInv, Covered, Kept, Typed, RepoType
<1>10. Owed'
  BY <1>2, <1>6 DEF SafeInv, Owed
<1> QED BY <1>8, <1>9, <1>10 DEF SafeInv

LEMMA DeleteSafe ==
  ASSUME Typed, SafeInv, NEW d \in Docs, DocDelete(d)
  PROVE  SafeInv'
<1> DEFINE s == IF d \in subscribed THEN <<DeleteRequest(d)>> ELSE <<>>
<1>1. s \in Seq(Messages)
  BY MessageTypes, OneIsSeq, EmptySeq
<1>2. /\ Send(tasks, s) /\ documents' = documents \ {d}
      /\ oplog' = [oplog EXCEPT ![d] = {}]
      /\ flush' = [flush EXCEPT !.owed[d] = {}]
      /\ UNCHANGED <<store, channel, subscribed, believed, lost>>
  BY DEF DocDelete
<1> HIDE DEF s
<1>3. Kept
  BY <1>1, <1>2, SendAdds, GrowsKept DEF Typed
<1>4. \A e \in Docs : e # d => Version(e)' = Version(e)
  BY <1>2 DEF Version, Applied, Typed, RepoType
<1>5. /\ FlushType' /\ flush'.for = flush.for
      /\ \A e \in Docs : flush'.owed[e] = IF e = d THEN {} ELSE flush.owed[e]
  <2> DEFINE w == [flush.owed EXCEPT ![d] = {}]
  <2>1. flush' = [flush EXCEPT !.owed = w]
    BY <1>2
  <2>2. /\ w \in [Docs -> SUBSET Ops]
        /\ \A e \in Docs : w[e] = IF e = d THEN {} ELSE flush.owed[e]
    BY DEF SafeInv, FlushType
  <2> HIDE DEF w
  <2>3. flush' \in [for : {"none", "flush", "shutdown"}, waits : SUBSET Tasks,
                    owed : [Docs -> SUBSET Ops]]
        /\ flush'.for = flush.for /\ flush'.owed = w
    BY <2>1, <2>2 DEF SafeInv, FlushType
  <2> QED BY <2>2, <2>3 DEF FlushType
<1>6. Open' /\ Believed'
  BY <1>2, <1>3, <1>5 DEF SafeInv, Open, Believed, Kept
<1>7. Covered'
  BY <1>2, <1>3, <1>4 DEF SafeInv, Covered, Kept, Typed, RepoType
<1>8. Owed'
  BY <1>2, <1>4, <1>5 DEF SafeInv, Owed
<1> QED BY <1>5, <1>6, <1>7, <1>8 DEF SafeInv

LEMMA FirstSafe ==
  ASSUME Typed, SafeInv, NEW d \in Docs, NEW o \in Ops, FirstChange(d, o)
  PROVE  SafeInv'
<1> DEFINE v == Applied(oplog[d] \cup {o})
           told == channel = "established" /\ ShouldSync(v, believed[d])
           s == IF told THEN <<Data(d, v)>> ELSE <<>>
<1>1. v \in SUBSET Ops
  BY VersionType DEF Typed, RepoType
<1>2. s \in Seq(Messages)
  BY <1>1, MessageTypes, OneIsSeq, EmptySeq
<1>3. /\ Send(tasks, s) /\ d \in documents \ subscribed
      /\ oplog' = [oplog EXCEPT ![d] = @ \cup {o}]
      /\ subscribed' = (IF told THEN subscribed \cup {d} ELSE subscribed)
      /\ believed' = IF told THEN [believed EXCEPT ![d] = Pending] ELSE believed
      /\ UNCHANGED <<store, channel, documents, flush, lost>>
  BY DEF FirstChange
<1>4. told => Data(d, v) \in Msgs(s)
  BY OneMsg
<1> HIDE DEF s
<1>5. Under \subseteq Under' /\ Msgs(s) \subseteq Under'
  BY <1>2, <1>3, SendAdds DEF Typed
<1>6. Kept
  BY <1>3, <1>5, GrowsKept
<1>7. /\ Version(d)' = v
      /\ \A e \in Docs : Version(e) \subseteq Version(e)'
      /\ \A e \in Docs : e # d => Version(e)' = Version(e)
  <2>1. oplog'[d] = oplog[d] \cup {o} /\ \A e \in Docs : e # d => oplog'[e] = oplog[e]
    BY <1>3 DEF Typed, RepoType
  <2>2. \A e : Version(e)' = Applied(oplog'[e]) /\ Version(e) = Applied(oplog[e])
    BY DEF Version, Applied
  <2>3. Version(d) \subseteq v
    BY <2>2 DEF Applied
  <2> QED BY <2>1, <2>2, <2>3
<1>8. told => v \subseteq DurableIn(store', lost', Under', d)
  <2>1. told => Data(d, v) \in Under'
    BY <1>4, <1>5
  <2> HIDE DEF v, told
  <2>2. told => v \subseteq QueuedIn(Under', d)
    BY <2>1 DEF Data, QueuedIn
  <2> QED BY <2>2 DEF DurableIn
<1> HIDE DEF v, told
<1>9. FlushType' /\ Open'
  BY <1>3, <1>6 DEF SafeInv, FlushType, Open, Kept
<1>10. Believed'
  <2>1. \A e \in Docs : believed'[e] = believed[e] \/ believed'[e] = Pending
    BY <1>3 DEF Typed, RepoType
  <2> QED BY <1>6, <2>1 DEF SafeInv, Believed, Kept, Pending
<1>11. Covered'
  <2>1. ~ told /\ channel = "established" => RequestedIn(Under', d)
    BY <1>3, <1>6 DEF SafeInv, Covered, Kept
  <2>2. told => d \in subscribed' /\ Version(d)' \subseteq DurableIn(store', lost', Under', d)
    BY <1>3, <1>7, <1>8
  <2>3. \A e \in Docs : e \in subscribed => e \in subscribed'
    BY <1>3
  <2>4. ASSUME channel' = "established", NEW e \in documents'
        PROVE  \/ RequestedIn(Under', e)
               \/ e \in subscribed' /\ Version(e)' \subseteq DurableIn(store', lost', Under', e)
    <3>1. e \in Docs /\ e \in documents /\ channel = "established"
      BY <1>3, <2>4 DEF Typed, RepoType
    <3>2. CASE e = d
      BY <2>1, <2>2, <3>1, <3>2
    <3>3. CASE e # d
      BY <1>6, <1>7, <2>3, <3>1, <3>3 DEF SafeInv, Covered, Kept
    <3> QED BY <3>2, <3>3
  <2> QED BY <2>4 DEF Covered
<1>12. Owed'
  BY <1>3, <1>7 DEF SafeInv, Owed
<1> QED BY <1>9, <1>10, <1>11, <1>12 DEF SafeInv

(* Each change is sent but what the adapter is believed to have.           *)
LEMMA ChangeSafe ==
  ASSUME Typed, SafeInv, NEW S \in SUBSET Ops, Change(S)
  PROVE  SafeInv'
<1>1. PICK s \in SetToSeqs({UpdateOf(S, d) : d \in Updated(S)}) : Send(tasks, s)
  BY ChangeIs
<1>2. s \in Seq(Messages) /\ \A m \in {UpdateOf(S, d) : d \in Updated(S)} : m \in Msgs(s)
  BY <1>1, UpdatesTyped, ListType
<1>3. /\ \A o \in S : DocOf[o] \in documents \cap subscribed
      /\ oplog' = [d \in Docs |-> LogWith(S, d)]
      /\ believed' = Believe(S)
      /\ UNCHANGED <<store, channel, documents, subscribed, flush, lost>>
  BY ChangeIs
<1>4. Under \subseteq Under' /\ Msgs(s) \subseteq Under'
  BY <1>1, <1>2, SendAdds DEF Typed
<1>5. Kept
  BY <1>3, <1>4, GrowsKept
<1>6. \A d \in Docs : Version(d)' = Applied(LogWith(S, d)) /\ Version(d) \subseteq Version(d)'
  BY <1>3 DEF Version, Applied, LogWith
<1>7. \A d \in Docs : ~ (\E o \in S : DocOf[o] = d) =>
         Version(d)' = Version(d) /\ believed'[d] = believed[d]
  BY <1>3, <1>6 DEF Version, Applied, LogWith, Believe
<1>8. ASSUME NEW d \in Docs, \E o \in S : DocOf[o] = d
      PROVE  /\ d \in subscribed
             /\ Version(d)' \subseteq DurableIn(store', lost', Under', d)
  <2> DEFINE v == Applied(LogWith(S, d))
  <2>1. d \in subscribed /\ d \in {DocOf[o] : o \in S}
    BY <1>3, <1>8
  <2>2. believed[d].status = "synced" =>
          believed[d].version \subseteq DurableIn(store', lost', Under', d)
    BY <1>5 DEF SafeInv, Believed, Kept
  <2>3. CASE NeedsUpdate(v, believed[d])
    <3>1. d \in Updated(S)
      BY <2>1, <2>3 DEF Updated
    <3>2. UpdateOf(S, d) \in Under'
      BY <1>2, <1>4, <3>1
    <3>3. Delta(v, believed[d]) \subseteq QueuedIn(Under', d)
      BY <3>2 DEF UpdateOf, Data, QueuedIn
    <3>4. v \subseteq DurableIn(store', lost', Under', d)
      BY <2>2, <3>3 DEF Delta, DurableIn
    <3> QED BY <1>6, <2>1, <3>4
  <2>4. CASE ~ NeedsUpdate(v, believed[d])
    <3>1. believed[d] \in Awareness
      BY DEF Typed, RepoType
    <3>2. believed[d].status = "synced" /\ v \subseteq believed[d].version
      BY <2>4, <3>1 DEF NeedsUpdate, ShouldSync, Awareness
    <3> QED BY <1>6, <2>1, <2>2, <3>2
  <2> QED BY <2>3, <2>4
<1>9. FlushType' /\ Open'
  BY <1>3, <1>5 DEF SafeInv, FlushType, Open, Kept
<1>10. Believed'
  <2> SUFFICES ASSUME NEW d \in Docs, believed'[d].status = "synced"
               PROVE  believed'[d].version \subseteq DurableIn(store', lost', Under', d)
    BY DEF Believed
  <2>1. CASE believed'[d] = believed[d]
    BY <1>5, <2>1 DEF SafeInv, Believed, Kept
  <2>2. CASE believed'[d] # believed[d]
    <3>1. \E o \in S : DocOf[o] = d
      BY <1>7, <2>2
    <3>2. believed'[d] = Synced(Applied(LogWith(S, d)))
      BY <1>3, <2>2 DEF Believe, LogWith
    <3> QED BY <1>6, <1>8, <3>1, <3>2 DEF Synced
  <2> QED BY <2>1, <2>2
<1>11. Covered'
  <2>1. ASSUME channel' = "established", NEW d \in documents'
        PROVE  \/ RequestedIn(Under', d)
               \/ d \in subscribed' /\ Version(d)' \subseteq DurableIn(store', lost', Under', d)
    <3>1. d \in Docs /\ d \in documents /\ channel = "established"
      BY <1>3, <2>1 DEF Typed, RepoType
    <3>2. CASE \E o \in S : DocOf[o] = d
      BY <1>3, <1>8, <3>1, <3>2
    <3>3. CASE ~ \E o \in S : DocOf[o] = d
      <4>1. Version(d)' = Version(d)
        BY <1>7, <3>1, <3>3
      <4> QED BY <1>3, <1>5, <3>1, <4>1 DEF SafeInv, Covered, Kept
    <3> QED BY <3>2, <3>3
  <2> QED BY <2>1 DEF Covered
<1>12. Owed'
  BY <1>3, <1>6 DEF SafeInv, Owed
<1> QED BY <1>9, <1>10, <1>11, <1>12 DEF SafeInv

LEMMA CallSafe ==
  ASSUME Typed, SafeInv, NEW why \in {"flush", "shutdown"}, FlushCalled(why)
  PROVE  SafeInv'
<1> DEFINE w == [d \in Docs |-> IF d \in documents THEN Version(d) ELSE {}]
<1>1. /\ flush' = [for |-> why, waits |-> PendingOps, owed |-> w]
      /\ channel # "removed"
      /\ UNCHANGED <<store, tasks, channel, repoVars, lost>>
  BY DEF FlushCalled
<1>2. \A d \in Docs : Version(d) \in SUBSET Ops
  BY VersionType DEF Version, Typed, RepoType
<1>3. w \in [Docs -> SUBSET Ops] /\ PendingOps \subseteq Tasks
  BY <1>2 DEF PendingOps
<1>4. \A d \in Docs : w[d] # {} => d \in documents /\ w[d] \subseteq Version(d)
  OBVIOUS
<1> HIDE DEF w
<1>5. FlushType' /\ flush'.owed = w
  BY <1>1, <1>3 DEF FlushType
<1>6. Kept
  BY <1>1, SameUnder, GrowsKept
<1>7. \A d : Version(d)' = Version(d)
  BY <1>1 DEF Version, Applied, repoVars
<1>8. Open' /\ Believed'
  BY <1>1, <1>6 DEF SafeInv, Open, Believed, Kept, repoVars
<1>9. Covered'
  BY <1>1, <1>6, <1>7 DEF SafeInv, Covered, Kept, repoVars, Typed, RepoType
<1>10. Owed'
  BY <1>1, <1>4, <1>5, <1>7 DEF Owed, repoVars
<1> QED BY <1>5, <1>8, <1>9, <1>10 DEF SafeInv

LEMMA EstablishSafe ==
  ASSUME Typed, SafeInv, NEW t \in Tasks, HandleEstablishRequest(t)
  PROVE  SafeInv'
<1>1. PICK s \in SetToSeqs({SyncRequest(d, Version(d)) : d \in documents}) : Send(Done(t), s)
  BY DEF HandleEstablishRequest
<1>2. s \in Seq(Messages)
      /\ \A m \in {SyncRequest(d, Version(d)) : d \in documents} : m \in Msgs(s)
  BY <1>1, RequestsTyped, ListType
<1>3. /\ Working(t, "establish-request", "begun") /\ channel' = "established" /\ FlushSees
      /\ UNCHANGED <<store, repoVars, lost>>
  BY DEF HandleEstablishRequest
<1> DEFINE h == Head(tasks[t].todo)
<1>4. Under \subseteq {h} \cup Under' /\ Msgs(s) \subseteq Under'
  BY <1>1, <1>2, <1>3, DoneLeaves DEF Typed
<1>5. h.type = "establish-request"
  BY <1>3 DEF Working
<1> HIDE DEF h
<1>6. \A d \in Docs : QueuedIn(Under, d) \subseteq QueuedIn(Under', d)
  BY <1>4, <1>5, OneGone
<1>7. FlushType' /\ flush'.for = flush.for /\ flush'.owed = flush.owed
  BY <1>3, SeesType DEF SafeInv
<1>8. \A d : Version(d)' = Version(d)
  BY <1>3 DEF Version, Applied, repoVars
<1>9. Open'
  BY <1>3 DEF Open
<1>10. Believed'
  BY <1>3, <1>6 DEF SafeInv, Believed, DurableIn, repoVars
<1>11. Covered'
  <2>1. \A d \in documents : SyncRequest(d, Version(d)) \in Under'
    BY <1>2, <1>4
  <2>2. \A d \in documents : RequestedIn(Under', d)
    BY <2>1 DEF RequestedIn, SyncRequest
  <2> QED BY <1>3, <2>2 DEF Covered, repoVars
<1>12. Owed'
  BY <1>3, <1>7, <1>8 DEF SafeInv, Owed, repoVars
<1> QED BY <1>7, <1>9, <1>10, <1>11, <1>12 DEF SafeInv

(* What the answer leaves out, the chunks hold.                            *)
LEMMA AnswerBrings ==
  ASSUME NEW d \in Docs, NEW v \in SUBSET Ops, NEW h \in SUBSET Ops, NEW U,
         Msgs(AnswerTo(d, v, h)) \subseteq U
  PROVE  v \subseteq h \cup QueuedIn(U, d)
<1>1. CASE h = {}
  <2>1. Data(d, v) \in U
    BY <1>1, OneMsg DEF AnswerTo
  <2> QED BY <2>1 DEF Data, QueuedIn
<1>2. CASE h # {} /\ v \subseteq h
  BY <1>2
<1>3. CASE h # {} /\ ~ (v \subseteq h)
  <2> DEFINE w == v \ h
  <2>1. Data(d, w) \in U
    BY <1>3, OneMsg DEF AnswerTo
  <2> HIDE DEF w
  <2>2. w \subseteq QueuedIn(U, d)
    BY <2>1 DEF Data, QueuedIn
  <2> QED BY <2>2 DEF w
<1> QED BY <1>1, <1>2, <1>3

Lacks(V, m, U) == U \subseteq {m} \cup V

Carries(V, m, U) ==
  /\ \A d \in Docs : QueuedIn(U, d) \subseteq QueuedIn(V, d)
  /\ \A d \in Docs : d # m.doc => (RequestedIn(U, d) => RequestedIn(V, d))
  /\ EstablishRequest \in U => EstablishRequest \in V

LEMMA RequestGone ==
  ASSUME NEW U, NEW V, NEW m, Lacks(V, m, U), m.type = "sync-request"
  PROVE  Carries(V, m, U)
<1>1. \A d \in Docs : QueuedIn(U, d) \subseteq QueuedIn(V, d)
  BY DEF QueuedIn, Lacks
<1>2. \A d \in Docs : d # m.doc => (RequestedIn(U, d) => RequestedIn(V, d))
  BY DEF RequestedIn, Lacks
<1>3. EstablishRequest \in U => EstablishRequest \in V
  BY DEF EstablishRequest, Lacks
<1> QED BY <1>1, <1>2, <1>3 DEF Carries

LEMMA ReplySafe ==
  ASSUME Typed, SafeInv, NEW t \in Tasks, NEW stage, Working(t, "sync-request", stage),
         NEW has \in SUBSET Ops, Reply(t, has),
         NEW m, m = Head(tasks[t].todo), NEW d, d = m.doc,
         has \subseteq SavedAt(store, d)
  PROVE  SafeInv'
<1> DEFINE v == Applied(LogAfter(m, has))
           s == AnswerTo(d, v, has)
<1>1. m \in Messages /\ m.type = "sync-request" /\ d \in Docs
  <2>1. m \in Messages /\ m.type = "sync-request"
    BY WorkingType DEF Typed
  <2> QED BY <2>1, MessageOf
<1>2. /\ documents' = documents \cup {d}
      /\ oplog' = [oplog EXCEPT ![d] = LogAfter(m, has)]
      /\ subscribed' = subscribed \cup {d}
      /\ believed' = [believed EXCEPT ![d] = Pending]
      /\ Send(Done(t), s) /\ FlushSees
      /\ UNCHANGED <<store, clock, channel, lost>>
  BY ReplyIs
<1>3. LogAfter(m, has) \in SUBSET Ops /\ oplog[d] \subseteq LogAfter(m, has)
  BY <1>1 DEF LogAfter, Typed, RepoType
<1>4. v \in SUBSET Ops
  BY <1>3, VersionType
<1>5. s \in Seq(Messages)
  BY <1>1, <1>4, AnswerType
<1>6. Under \subseteq {m} \cup Under' /\ Msgs(s) \subseteq Under'
  BY <1>2, <1>5, DoneLeaves DEF Typed
<1>7. v \subseteq has \cup QueuedIn(Under', d)
  BY <1>1, <1>4, <1>6, AnswerBrings
<1>8. v \subseteq DurableIn(store', lost', Under', d)
  BY <1>2, <1>7 DEF DurableIn
<1>9. oplog'[d] = LogAfter(m, has) /\ \A e \in Docs : e # d => oplog'[e] = oplog[e]
  BY <1>1, <1>2 DEF Typed, RepoType
<1>10. \A e : Version(e)' = Applied(oplog'[e]) /\ Version(e) = Applied(oplog[e])
  BY DEF Version, Applied
<1>11. Version(d)' = v /\ Version(d) \subseteq v
  BY <1>3, <1>9, <1>10 DEF Applied
<1>12. \A e \in Docs : e # d => Version(e)' = Version(e)
  BY <1>9, <1>10
<1> HIDE DEF v, s
<1>13. /\ \A e \in Docs : QueuedIn(Under, e) \subseteq QueuedIn(Under', e)
       /\ \A e \in Docs : e # m.doc => (RequestedIn(Under, e) => RequestedIn(Under', e))
       /\ EstablishRequest \in Under => EstablishRequest \in Under'
  <2>1. Lacks(Under', m, Under) /\ m.type = "sync-request"
    BY <1>1, <1>6 DEF Lacks
  <2>2. Carries(Under', m, Under)
    BY <2>1, RequestGone
  <2> QED BY <2>2 DEF Carries
<1>14. \A e \in Docs :
         DurableIn(store, lost, Under, e) \subseteq DurableIn(store', lost', Under', e)
  BY <1>2, <1>13 DEF DurableIn
<1>15. FlushType' /\ flush'.for = flush.for /\ flush'.owed = flush.owed
  BY <1>2, SeesType DEF SafeInv
<1>16. Open'
  BY <1>2, <1>13, <1>15 DEF SafeInv, Open
<1>17. Believed'
  <2>1. \A e \in Docs : believed'[e] = believed[e] \/ believed'[e] = Pending
    BY <1>2 DEF Typed, RepoType
  <2> QED BY <1>14, <2>1 DEF SafeInv, Believed, Pending
<1>18. Covered'
  <2>1. ASSUME channel' = "established", NEW e \in documents'
        PROVE  \/ RequestedIn(Under', e)
               \/ e \in subscribed' /\ Version(e)' \subseteq DurableIn(store', lost', Under', e)
    <3>1. CASE e = d
      BY <1>2, <1>8, <1>11, <3>1
    <3>2. CASE e # d
      <4>1. e \in Docs /\ e \in documents /\ channel = "established"
        BY <1>2, <2>1, <3>2 DEF Typed, RepoType
      <4> QED BY <1>2, <1>12, <1>13, <1>14, <3>2, <4>1 DEF SafeInv, Covered
    <3> QED BY <3>1, <3>2
  <2> QED BY <2>1 DEF Covered
<1>19. Owed'
  BY <1>2, <1>11, <1>12, <1>15 DEF SafeInv, Owed
<1> QED BY <1>15, <1>16, <1>17, <1>18, <1>19 DEF SafeInv

LEMMA ReadSafe ==
  ASSUME StoredInv, SafeInv, NEW t \in Tasks, HandleSyncRequest(t)
  PROVE  SafeInv'
<1> DEFINE has == Applied(tasks[t].got)
<1>1. Working(t, "sync-request", "read") /\ Reply(t, has)
  BY DEF HandleSyncRequest
<1>2. tasks[t] \in Task /\ tasks[t].stage = "read"
  BY <1>1 DEF StoredInv, Typed, StoreType, Working
<1>3. tasks[t].got \in SUBSET Ops /\ tasks[t].got \subseteq SavedAt(store, Head(tasks[t].todo).doc)
  BY <1>2 DEF Task, TaskRecords, StoredInv, FloorInv, Sound
<1>4. has \in SUBSET Ops /\ has \subseteq tasks[t].got
  BY <1>3, VersionType DEF Applied
<1> HIDE DEF has
<1> QED BY <1>1, <1>3, <1>4, ReplySafe DEF StoredInv

LEMMA ReadFailsSafe ==
  ASSUME StoredInv, SafeInv, NEW t \in Tasks, SyncRequestFails(t)
  PROVE  SafeInv'
<1>1. Working(t, "sync-request", "begun") /\ Reply(t, {})
  BY DEF SyncRequestFails
<1> QED BY <1>1, ReplySafe DEF StoredInv

-----------------------------------------------------------------------------
(* Ends and beginnings.                                                    *)
LEMMA ReturnsSafe ==
  ASSUME Typed, SafeInv, FlushReturns
  PROVE  SafeInv'
<1>1. flush' = NoFlush /\ UNCHANGED <<store, tasks, lost>>
  BY DEF FlushReturns
<1>2. FlushType' /\ flush'.for = "none" /\ \A d \in Docs : flush'.owed[d] = {}
  BY <1>1, NoFlushType DEF FlushType
<1>3. Owed'
  BY <1>2 DEF Owed
<1>4. Kept
  BY <1>1, SameUnder, GrowsKept
<1>5. CASE UNCHANGED <<channel, repoVars>>
  <2>1. \A d : Version(d)' = Version(d)
    BY <1>5 DEF Version, Applied, repoVars
  <2>2. Open' /\ Believed'
    BY <1>2, <1>4, <1>5 DEF SafeInv, Open, Believed, Kept, repoVars
  <2>3. Covered'
    BY <1>4, <1>5, <2>1 DEF SafeInv, Covered, Kept, repoVars, Typed, RepoType
  <2> QED BY <1>2, <1>3, <2>2, <2>3 DEF SafeInv
<1>6. CASE channel' = "removed" /\ believed' = [d \in Docs |-> Unknown]
  <2>1. Open' /\ Covered'
    BY <1>2, <1>6 DEF Open, Covered
  <2>2. Believed'
    BY <1>6 DEF Believed, Unknown
  <2> QED BY <1>2, <1>3, <2>1, <2>2 DEF SafeInv
<1> QED BY <1>5, <1>6 DEF FlushReturns

LEMMA StartedUnder ==
  ASSUME NEW T, NEW t \in Tasks, Started(T, t)
  PROVE  EstablishRequest \in Left(T)
<1>1. EstablishRequest \in Msgs(T[t].todo)
  BY StartedType, OneMsg
<1> QED BY <1>1 DEF Left

LEMMA RestartSafe ==
  ASSUME Typed, Restart
  PROVE  SafeInv'
<1>1. /\ channel' = "connected" /\ documents' = {} /\ flush' = NoFlush
      /\ believed' = [d \in Docs |-> Unknown]
  BY DEF Restart
<1>2. FlushType' /\ Owed'
  BY <1>1, NoFlushType DEF FlushType, Owed
<1>3. EstablishRequest \in Under'
  <2>1. Under' = Left(tasks')
    BY DEF Under, Left
  <2> QED BY <2>1, RestartTyped, StartedUnder
<1>4. Open' /\ Covered'
  BY <1>1, <1>3 DEF Open, Covered
<1>5. Believed'
  BY <1>1 DEF Believed, Unknown
<1> QED BY <1>2, <1>4, <1>5 DEF SafeInv

LEMMA InitSafe == Init => SafeInv
<1> SUFFICES ASSUME Init PROVE SafeInv
  OBVIOUS
<1>1. \E t \in Tasks : Started(tasks, t)
  BY DEF Init, Started
<1>2. EstablishRequest \in Under
  BY <1>1, StartedUnder DEF Under
<1>3. FlushType /\ Owed
  BY NoFlushType DEF Init, FlushType, Owed
<1>4. Open /\ Covered
  BY <1>2 DEF Init, Open, Covered
<1>5. Believed
  BY DEF Init, Believed, Unknown
<1> QED BY <1>3, <1>4, <1>5 DEF SafeInv

LEMMA NextSafe ==
  ASSUME Prudent, StoredInv, SafeInv, [Next]_vars
  PROVE  SafeInv'
<1>1. CASE UNCHANGED vars \/ Tick
  <2>1. UNCHANGED <<store, tasks, channel, repoVars, lost, flush>>
    BY <1>1 DEF vars, Tick
  <2> QED BY <2>1, IdleSafe DEF StoredInv
<1>2. CASE Application
  BY <1>2, EnsureSafe, DeleteSafe, FirstSafe, ChangeSafe, CallSafe
     DEF Application, StoredInv
<1>3. ASSUME NEW t \in Tasks, TaskStep(t) PROVE SafeInv'
  BY <1>3, StartSafe, EstablishSafe, ReadSafe, ReadFailsSafe, SaveSafe, SaveFailsSafe,
     SettleSafe DEF TaskStep, StoredInv
<1>4. CASE FlushAgain
  <2>1. UNCHANGED <<store, tasks, channel, repoVars, lost>>
    BY <1>4 DEF FlushAgain
  <2> QED BY <1>4, <2>1, IdleSafe DEF StoredInv
<1>5. CASE FlushReturns \/ Restart
  BY <1>5, ReturnsSafe, RestartSafe DEF StoredInv
<1> QED BY <1>1, <1>2, <1>3, <1>4, <1>5 DEF Next

(* SafeInv is inductive relative to StoredInv.                             *)
LEMMA Safe == Prudent => (Spec => [](StoredInv /\ SafeInv))
<1> SUFFICES ASSUME Prudent PROVE Spec => [](StoredInv /\ SafeInv)
  OBVIOUS
<1>1. StoredInv /\ SafeInv /\ [Next]_vars => SafeInv'
  BY NextSafe
<1> QED BY <1>1, InitSafe, Stored, PTL DEF Spec

(* Nothing is under way when no task has anything to do.                   *)
LEMMA NothingUnder ==
  ASSUME PendingOps = {}
  PROVE  Under = {} /\ \A d : QueuedIn(Under, d) = {} /\ ~ RequestedIn(Under, d)
<1>1. \A t \in Tasks : tasks[t].todo = <<>>
  BY DEF PendingOps
<1>2. Under = {}
  BY <1>1, NoMsgs DEF Under, Left
<1> QED BY <1>2 DEF QueuedIn, RequestedIn

LEMMA RestIsDurable ==
  ASSUME Typed, SafeInv, PendingOps = {}, channel = "established", NEW d \in documents
  PROVE  Version(d) \subseteq Saved(d) \cup lost
BY NothingUnder, SavedIs DEF SafeInv, Covered, DurableIn

(* When the adapter has nothing left to do, what the Repo has is stored,   *)
(* unless a save of it failed.                                             *)
THEOREM QuietIsDurable == Prudent => (Spec => []QuietDurable)
<1> SUFFICES ASSUME Prudent PROVE Spec => []QuietDurable
  OBVIOUS
<1>1. StoredInv /\ SafeInv => QuietDurable
  BY RestIsDurable DEF QuietDurable, StoredInv
<1> QED BY <1>1, Safe, PTL

LEMMA ReturnIsDurable ==
  ASSUME Typed, SafeInv, FlushReturns, NEW d \in Docs
  PROVE  flush.owed[d] \subseteq Saved(d) \cup lost
<1>1. PendingOps = {} /\ flush.for # "none"
  BY DEF FlushReturns, NothingPending
<1>2. channel = "established"
  BY <1>1, NothingUnder DEF SafeInv, Open
<1>3. flush.owed[d] # {} => d \in documents /\ flush.owed[d] \subseteq Version(d)
  BY DEF SafeInv, Owed
<1> QED BY <1>1, <1>2, <1>3, RestIsDurable

(* When flush() or shutdown() returns, all the Repo had at the call is     *)
(* stored, unless a save of it failed.                                     *)
THEOREM FlushIsDurable == Prudent => (Spec => FlushDurable)
<1> SUFFICES ASSUME Prudent PROVE Spec => FlushDurable
  OBVIOUS
<1>1. StoredInv /\ SafeInv /\ [Next]_vars =>
        [FlushReturns => \A d \in Docs : flush.owed[d] \subseteq Saved(d) \cup lost]_vars
  BY ReturnIsDurable DEF StoredInv
<1> QED BY <1>1, Safe, PTL DEF Spec, FlushDurable
=============================================================================
