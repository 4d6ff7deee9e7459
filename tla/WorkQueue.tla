----------------------------- MODULE WorkQueue -----------------------------
(***************************************************************************)
(* The runtime of one synchronizer: the work queue, the commands of a work *)
(* item, the outbound buffer and its flush, and the ready states emitted   *)
(* after it (work-queue.ts, outbound-batcher.ts, command-executor.ts and   *)
(* the dispatch part of synchronizer.ts).  The other modules take a work   *)
(* item, its commands and the flush as one step; here an adapter may       *)
(* answer within a send, an import may throw, and a send may throw.        *)
(***************************************************************************)
EXTENDS Integers, Sequences, FiniteSets, SequencesExt, FiniteSetTheorems,
        SequenceTheorems, TLAPS

CONSTANTS
  Channels,
  Works,       \* the command sequences the outside may enqueue
  Replying,    \* channels of adapters that answer within send()
  Failing,     \* channels whose send() may throw
  MaxThrows,   \* bound: imports and sends that throw
  MaxMade,     \* bound: messages queued before nothing new is enqueued
  MaxReplies   \* bound: answers within send()

Commands == [op : {"send", "import", "hello"}, channel : Channels]

ChannelAssumption ==
  IsFiniteSet(Channels) /\ Replying \subseteq Channels /\ Failing \subseteq Channels
WorkAssumption == Works \subseteq Seq(Commands)
BoundAssumption == {MaxMade, MaxReplies, MaxThrows} \subseteq Nat

VARIABLES
  queue,     \* #queue: work items, each the sequence of its commands
  phase,     \* "idle", or #isProcessing: "work" or "flush"
  cmds,      \* the commands of the current item still to be executed
  buffer,    \* the outbound buffer, per channel; messages are numbered
  snapshot,  \* toSend of the flush under way
  sent,      \* the messages handed to each channel's send()
  made,      \* how many messages were queued for each channel
  model,     \* how often the ready states of the model changed
  cached,    \* the ready states last emitted
  replies,
  throws

vars == <<queue, phase, cmds, buffer, snapshot, sent, made, model, cached, replies, throws>>

Send(c) == [op |-> "send", channel |-> c]
Import(c) == [op |-> "import", channel |-> c]
Hello(c) == [op |-> "hello", channel |-> c]

(* What a synchronous adapter answers with: data for the document.         *)
Reply(c) == <<Import(c)>>

Empty == [c \in Channels |-> <<>>]

Init ==
  /\ queue = <<>> /\ phase = "idle" /\ cmds = <<>>
  /\ buffer = Empty /\ snapshot = Empty /\ sent = Empty
  /\ made = [c \in Channels |-> 0]
  /\ model = 0 /\ cached = 0 /\ replies = 0 /\ throws = 0

-----------------------------------------------------------------------------
(* An item from outside: a received message, a local change, a channel     *)
(* that comes or goes, a heartbeat.                                        *)
Enqueue(work) ==
  /\ phase = "idle"
  /\ queue' = Append(queue, work)
  /\ phase' = "work"
  /\ UNCHANGED <<cmds, buffer, snapshot, sent, made, model, cached, replies, throws>>

(* A new stimulus, while the bound allows.                                 *)
Stimulus(work) ==
  /\ \A c \in Channels : made[c] < MaxMade
  /\ Enqueue(work)

(* The heartbeat enqueues an item even when it has nothing to send.        *)
Heartbeat == Enqueue(<<>>)

Take ==
  /\ phase = "work" /\ cmds = <<>> /\ queue # <<>>
  /\ cmds' = Head(queue)
  /\ queue' = Tail(queue)
  /\ UNCHANGED <<phase, buffer, snapshot, sent, made, model, cached, replies, throws>>

(* queueSend.                                                              *)
ExecuteSend ==
  /\ cmds # <<>> /\ Head(cmds).op = "send"
  /\ LET c == Head(cmds).channel
     IN /\ made' = [made EXCEPT ![c] = @ + 1]
        /\ buffer' = [buffer EXCEPT ![c] = Append(@, made[c] + 1)]
  /\ cmds' = Tail(cmds)
  /\ UNCHANGED <<queue, phase, snapshot, sent, model, cached, replies, throws>>

(* The import dispatches doc-imported, which runs inline: it sends to the  *)
(* other channels before the rest of the batch is executed.                *)
ExecuteImport ==
  /\ cmds # <<>> /\ Head(cmds).op = "import"
  /\ model' = model + 1
  /\ cmds' = SetToSeq({Send(c) : c \in Channels \ {Head(cmds).channel}}) \o Tail(cmds)
  /\ UNCHANGED <<queue, phase, buffer, snapshot, sent, made, cached, replies, throws>>

(* A synchronous adapter calls channelReceive, which always queues.        *)
Answered(c) ==
  IF c \in Replying /\ replies < MaxReplies
    THEN queue' = Append(queue, Reply(c)) /\ replies' = replies + 1
    ELSE UNCHANGED <<queue, replies>>

(* Establishment messages do not wait for the flush.                       *)
ExecuteHello ==
  /\ cmds # <<>> /\ Head(cmds).op = "hello"
  /\ Answered(Head(cmds).channel)
  /\ cmds' = Tail(cmds)
  /\ UNCHANGED <<phase, buffer, snapshot, sent, made, model, cached, throws>>

(* Import of data that does not decode: the exception leaves the loop; the *)
(* rest of the batch is dropped, the queue and the buffer stay.            *)
ImportThrows ==
  /\ cmds # <<>> /\ Head(cmds).op = "import"
  /\ throws < MaxThrows
  /\ throws' = throws + 1
  /\ cmds' = <<>> /\ phase' = "idle"
  /\ UNCHANGED <<queue, buffer, snapshot, sent, made, model, cached, replies>>

(* Bug: the buffer is not cleared.                                         *)
KeepBuffer ==
  /\ phase = "work" /\ cmds = <<>> /\ queue = <<>>
  /\ snapshot' = buffer
  /\ phase' = "flush"
  /\ UNCHANGED <<queue, cmds, buffer, sent, made, model, cached, replies, throws>>

BeginFlush ==
  /\ phase = "work" /\ cmds = <<>> /\ queue = <<>>
  /\ snapshot' = buffer
  /\ buffer' = Empty
  /\ phase' = "flush"
  /\ UNCHANGED <<queue, cmds, sent, made, model, cached, replies, throws>>

(* The messages of one channel, singly or as one batch.                    *)
FlushChannel(c) ==
  /\ phase = "flush" /\ snapshot[c] # <<>>
  /\ sent' = [sent EXCEPT ![c] = @ \o snapshot[c]]
  /\ snapshot' = [snapshot EXCEPT ![c] = <<>>]
  /\ Answered(c)
  /\ UNCHANGED <<phase, cmds, buffer, made, model, cached, throws>>

(* send() throws: what the snapshot still held is gone.                    *)
FlushThrows(c) ==
  /\ phase = "flush" /\ c \in Failing /\ snapshot[c] # <<>>
  /\ throws < MaxThrows
  /\ throws' = throws + 1
  /\ snapshot' = Empty
  /\ phase' = "idle"
  /\ UNCHANGED <<queue, cmds, buffer, sent, made, model, cached, replies>>

(* Bug: work that came during the flush is not looked for.                 *)
NoSecondLook ==
  /\ phase = "flush" /\ snapshot = Empty
  /\ cached' = model
  /\ phase' = "idle"
  /\ UNCHANGED <<queue, cmds, buffer, snapshot, sent, made, model, replies, throws>>

(* Ready states are emitted after the flush; work that came during it is   *)
(* processed next.                                                         *)
Quiesce ==
  /\ phase = "flush" /\ snapshot = Empty
  /\ cached' = model
  /\ phase' = IF queue # <<>> THEN "work" ELSE "idle"
  /\ UNCHANGED <<queue, cmds, buffer, snapshot, sent, made, model, replies, throws>>

Runs ==
  \/ Take \/ ExecuteSend \/ ExecuteImport \/ ExecuteHello \/ ImportThrows
  \/ BeginFlush \/ Quiesce
  \/ \E c \in Channels : FlushChannel(c) \/ FlushThrows(c)

Next == (\E w \in Works : Stimulus(w)) \/ Heartbeat \/ Runs

Spec == Init /\ [][Next]_vars

(* JavaScript runs an item to its end; the heartbeat's interval fires.     *)
FairSpec == Spec /\ WF_vars(Runs) /\ WF_vars(Heartbeat)

-----------------------------------------------------------------------------
(* The queue holds commands, the buffers hold numbered messages, and what  *)
(* was emitted was once the model's state.                                 *)
TypeOK ==
  /\ phase \in {"idle", "work", "flush"}
  /\ queue \in Seq(Seq(Commands)) /\ cmds \in Seq(Commands)
  /\ {buffer, snapshot, sent} \subseteq [Channels -> Seq(Nat)]
  /\ made \in [Channels -> Nat] /\ model \in Nat /\ cached \in 0 .. model
  /\ replies \in 0 .. MaxReplies /\ throws \in 0 .. MaxThrows

Quiet == queue = <<>> /\ buffer = Empty /\ cached = model

(* Between two runs of the loop nothing waits: no work item, no outbound   *)
(* message, no ready state that was not emitted (work-queue.ts:59).        *)
RestIsQuiet == phase = "idle" => Quiet

(* Nothing queued for a channel is lost, sent twice or overtaken, whatever *)
(* is queued while a flush is under way (outbound-batcher.ts:51).          *)
AllInOrder ==
  \A c \in Channels :
    sent[c] \o snapshot[c] \o buffer[c] = [n \in 1 .. made[c] |-> n]

(* Whatever throws, no message is sent twice or after a later one          *)
(* (work-queue.ts:74, outbound-batcher.ts:51).                             *)
NeverTwice ==
  \A c \in Channels : \A i, j \in DOMAIN sent[c] : i < j => sent[c][i] < sent[c][j]

(* What an import that threw left in the queue and in the buffer, and the  *)
(* ready states it kept from being emitted, go out with a later run of the *)
(* loop once nothing throws any more, at the latest the heartbeat's        *)
(* (work-queue.ts:62, heartbeat-manager.ts:29).                            *)
LeftoversLeave == ~Quiet ~> Quiet

-----------------------------------------------------------------------------
(* The sends of a dispatch are commands, in whatever order.                *)
LEMMA CommandsOf ==
  ASSUME ChannelAssumption, NEW some \in SUBSET Channels
  PROVE  SetToSeq({Send(c) : c \in some}) \in Seq(Commands)
<1> DEFINE sends == {Send(c) : c \in some}
<1>1. IsFiniteSet(sends)
  <2>1. IsFiniteSet(some)
    BY FS_Subset DEF ChannelAssumption
  <2>2. [c \in some |-> Send(c)] \in Surjection(some, sends)
    BY DEF Surjection
  <2>3. QED
    BY <2>1, <2>2, FS_Surjection
<1>2. sends \subseteq Commands
  BY DEF Send, Commands
<1> HIDE DEF sends
<1>3. Cardinality(sends) \in Nat /\ ExistsBijection(1 .. Cardinality(sends), sends)
  BY <1>1, FS_CardinalityType
<1>4. \E f \in [1 .. Cardinality(sends) -> sends] : IsInjective(f)
  BY <1>3 DEF ExistsBijection, Bijection, Injection, IsInjective
<1>5. SetToSeq(sends) \in [1 .. Cardinality(sends) -> sends]
  BY <1>4 DEF SetToSeq
<1>6. SetToSeq(sends) \in Seq(sends)
  BY <1>3, <1>5, SeqDef
<1>7. SetToSeq(sends) \in Seq(Commands)
  BY <1>2, <1>6
<1>8. QED
  BY <1>7 DEF sends

(* Numbered messages, per channel.                                         *)
Channelwise(f) == f \in [Channels -> Seq(Nat)]

(* The parts of the inductive invariant: the types of the state,           *)
TypeInv ==
  /\ phase \in {"idle", "work", "flush"}
  /\ queue \in Seq(Seq(Commands)) /\ cmds \in Seq(Commands)
  /\ Channelwise(buffer) /\ Channelwise(snapshot) /\ Channelwise(sent)
  /\ made \in [Channels -> Nat] /\ model \in Nat /\ cached \in Nat /\ cached <= model
  /\ replies \in Nat /\ replies <= MaxReplies /\ throws \in Nat /\ throws <= MaxThrows

(* what the phases of the loop are about,                                  *)
PhaseInv ==
  /\ cmds # <<>> => phase = "work"
  /\ phase # "flush" => snapshot = Empty

(* and the order of the messages, wherever they are: one sequence rises,   *)
(* lies below another, is bounded.                                         *)
Rising(s) == \A i, j \in DOMAIN s : i < j => s[i] < s[j]
Below(s, t) == \A i \in DOMAIN s, j \in DOMAIN t : s[i] < t[j]
UpTo(s, n) == \A i \in DOMAIN s : s[i] <= n

(* What was sent, what the flush still holds and what is buffered rise,    *)
(* each below the next, up to the last message made.                       *)
OrderInv ==
  \A c \in Channels :
    /\ Rising(sent[c]) /\ Rising(snapshot[c]) /\ Rising(buffer[c])
    /\ Below(sent[c], snapshot[c]) /\ Below(sent[c], buffer[c]) /\ Below(snapshot[c], buffer[c])
    /\ UpTo(sent[c], made[c]) /\ UpTo(snapshot[c], made[c]) /\ UpTo(buffer[c], made[c])

(* What the theorems assume of the constants.                              *)
Assumptions == ChannelAssumption /\ WorkAssumption /\ BoundAssumption

(* The inductive invariant.                                                *)
IInv == TypeInv /\ PhaseInv /\ OrderInv

(* No message for any channel.                                             *)
LEMMA EmptyIs ==
  /\ Channelwise(Empty)
  /\ \A c \in Channels : Empty[c] = <<>>
BY DEF Channelwise, Empty

(* A new last number keeps the order.                                      *)
LEMMA AppendRises ==
  ASSUME NEW s \in Seq(Nat), NEW n \in Nat, UpTo(s, n), Rising(s)
  PROVE  /\ Append(s, n + 1) \in Seq(Nat) /\ Rising(Append(s, n + 1)) /\ UpTo(Append(s, n + 1), n + 1)
         /\ \A t \in Seq(Nat) : Below(t, s) /\ UpTo(t, n) => Below(t, Append(s, n + 1))
<1> DEFINE a == Append(s, n + 1)
           l == Len(s)
<1>1. /\ a \in Seq(Nat) /\ Len(a) = l + 1 /\ l \in Nat /\ DOMAIN a = 1 .. l + 1 /\ DOMAIN s = 1 .. l
      /\ \A i \in 1 .. l : a[i] = s[i]
      /\ a[l + 1] = n + 1
  BY AppendProperties
<1>2. \A i \in 1 .. l : s[i] \in Nat
  BY ElementOfSeq
<1> HIDE DEF a, l
<1>3. \A i \in 1 .. l + 1 : i \in 1 .. l \/ i = l + 1
  BY <1>1
<1>4. \A i, j \in 1 .. l + 1 : i < j => i \in 1 .. l
  BY <1>1
<1>5. ASSUME NEW i \in 1 .. l PROVE a[i] = s[i] /\ s[i] <= n /\ a[i] < n + 1 /\ a[i] \in Nat
  <2>1. a[i] = s[i] /\ s[i] \in Nat
    BY <1>1, <1>2
  <2>2. s[i] <= n
    BY <1>1 DEF UpTo
  <2>3. QED
    BY <2>1, <2>2
<1>6. Rising(a)
  <2>1. ASSUME NEW i \in 1 .. l + 1, NEW j \in 1 .. l + 1, i < j PROVE a[i] < a[j]
    <3>1. i \in 1 .. l
      BY <2>1, <1>4
    <3>2. CASE j \in 1 .. l
      BY <3>1, <3>2, <1>1, <2>1 DEF Rising
    <3>3. CASE j = l + 1
      BY <3>1, <3>3, <1>5, <1>1
    <3>4. QED
      BY <3>2, <3>3, <1>3
  <2>2. QED
    BY <2>1, <1>1 DEF Rising
<1>7. UpTo(a, n + 1)
  <2>1. ASSUME NEW i \in 1 .. l + 1 PROVE a[i] <= n + 1
    BY <1>3, <1>5, <1>1
  <2>2. QED
    BY <2>1, <1>1 DEF UpTo
<1>8. ASSUME NEW t \in Seq(Nat), Below(t, s), UpTo(t, n) PROVE Below(t, a)
  <2>1. ASSUME NEW i \in DOMAIN t, NEW j \in 1 .. l + 1 PROVE t[i] < a[j]
    <3>1. t[i] \in Nat /\ t[i] <= n
      BY <1>8, ElementOfSeq DEF UpTo
    <3>2. CASE j \in 1 .. l
      BY <3>2, <1>8, <1>1 DEF Below
    <3>3. CASE j = l + 1
      BY <3>1, <3>3, <1>1
    <3>4. QED
      BY <3>2, <3>3, <1>3
  <2>2. QED
    BY <2>1, <1>1 DEF Below
<1>9. QED
  BY <1>1, <1>6, <1>7, <1>8 DEF a

(* So does the concatenation of two sequences, one below the other.        *)
LEMMA ConcatRises ==
  ASSUME NEW s \in Seq(Nat), NEW t \in Seq(Nat), Rising(s), Rising(t), Below(s, t)
  PROVE  /\ s \o t \in Seq(Nat) /\ Rising(s \o t)
         /\ \A u \in Seq(Nat) : Below(s, u) /\ Below(t, u) => Below(s \o t, u)
         /\ \A n \in Nat : UpTo(s, n) /\ UpTo(t, n) => UpTo(s \o t, n)
<1> DEFINE a == s \o t
           k == Len(s)
           l == Len(t)
<1>1. /\ a \in Seq(Nat) /\ Len(a) = k + l /\ k \in Nat /\ l \in Nat
      /\ DOMAIN a = 1 .. k + l /\ DOMAIN s = 1 .. k /\ DOMAIN t = 1 .. l
      /\ \A i \in 1 .. k + l : a[i] = IF i <= k THEN s[i] ELSE t[i - k]
  BY ConcatProperties
<1> HIDE DEF a, k, l
<1>2. ASSUME NEW i \in 1 .. k + l
      PROVE  (i \in 1 .. k /\ a[i] = s[i]) \/ (i - k \in 1 .. l /\ i > k /\ a[i] = t[i - k])
  <2>1. i <= k => i \in 1 .. k
    BY <1>1
  <2>2. ~ (i <= k) => i - k \in 1 .. l /\ i > k
    BY <1>1
  <2>3. QED
    BY <2>1, <2>2, <1>1
<1>3. Rising(a)
  <2>1. ASSUME NEW i \in 1 .. k + l, NEW j \in 1 .. k + l, i < j PROVE a[i] < a[j]
    <3>1. CASE i \in 1 .. k /\ a[i] = s[i] /\ j \in 1 .. k /\ a[j] = s[j]
      BY <3>1, <2>1, <1>1 DEF Rising
    <3>2. CASE i \in 1 .. k /\ a[i] = s[i] /\ j - k \in 1 .. l /\ a[j] = t[j - k]
      BY <3>2, <1>1 DEF Below
    <3>3. CASE i - k \in 1 .. l /\ a[i] = t[i - k] /\ j - k \in 1 .. l /\ a[j] = t[j - k]
      <4>1. i - k < j - k
        BY <2>1, <1>1
      <4> DEFINE x == i - k
                 y == j - k
      <4>2. x \in DOMAIN t /\ y \in DOMAIN t /\ x < y
        BY <3>3, <4>1, <1>1
      <4> HIDE DEF x, y
      <4>3. t[x] < t[y]
        BY <4>2 DEF Rising
      <4>4. QED
        BY <4>3, <3>3 DEF x, y
    <3>4. CASE i > k /\ j \in 1 .. k
      BY <3>4, <2>1, <1>1
    <3>5. QED
      BY <3>1, <3>2, <3>3, <3>4, <1>2
  <2>2. QED
    BY <2>1, <1>1 DEF Rising
<1>4. ASSUME NEW u \in Seq(Nat), Below(s, u), Below(t, u) PROVE Below(a, u)
  <2>1. ASSUME NEW i \in 1 .. k + l, NEW j \in DOMAIN u PROVE a[i] < u[j]
    BY <1>2, <1>4, <1>1 DEF Below
  <2>2. QED
    BY <2>1, <1>1 DEF Below
<1>5. ASSUME NEW n \in Nat, UpTo(s, n), UpTo(t, n) PROVE UpTo(a, n)
  <2>1. ASSUME NEW i \in 1 .. k + l PROVE a[i] <= n
    BY <1>2, <1>5, <1>1 DEF UpTo
  <2>2. QED
    BY <2>1, <1>1 DEF UpTo
<1>6. QED
  BY <1>1, <1>3, <1>4, <1>5 DEF a

(* At the start nothing is queued, buffered or sent.                       *)
LEMMA InitInv == ASSUME Assumptions, Init PROVE IInv
<1>1. TypeInv /\ PhaseInv
  BY EmptyIs DEF Init, TypeInv, PhaseInv, Assumptions, BoundAssumption
<1>2. Rising(<<>>) /\ Below(<<>>, <<>>) /\ \A n : UpTo(<<>>, n)
  BY DEF Rising, Below, UpTo
<1>3. OrderInv
  BY <1>2, EmptyIs DEF Init, OrderInv
<1>4. QED
  BY <1>1, <1>3 DEF IInv

(* An answer within send() is one more work item.                          *)
LEMMA AnswerTyped ==
  ASSUME TypeInv, NEW c \in Channels, Answered(c), Assumptions
  PROVE  queue' \in Seq(Seq(Commands)) /\ replies' \in Nat /\ replies' <= MaxReplies
<1>1. Reply(c) \in Seq(Commands)
  BY DEF Reply, Import, Commands
<1>2. CASE c \in Replying /\ replies < MaxReplies
  <2>1. queue' = Append(queue, Reply(c)) /\ replies' = replies + 1
    BY <1>2 DEF Answered
  <2>2. queue' \in Seq(Seq(Commands))
    BY <1>1, <2>1, AppendProperties DEF TypeInv
  <2>3. replies' \in Nat /\ replies' <= MaxReplies
    <3>1. MaxReplies \in Nat /\ replies \in Nat
      BY DEF TypeInv, Assumptions, BoundAssumption
    <3>2. QED
      BY <3>1, <1>2, <2>1
  <2>4. QED
    BY <2>2, <2>3
<1>3. CASE ~ (c \in Replying /\ replies < MaxReplies)
  BY <1>3 DEF Answered, TypeInv
<1>4. QED
  BY <1>2, <1>3

(* Steps that leave the messages alone keep the invariant: enqueue,        *)
LEMMA EnqueueStep ==
  ASSUME Assumptions, IInv, NEW w \in Seq(Commands), Enqueue(w)
  PROVE  IInv'
<1>1. queue' \in Seq(Seq(Commands))
  BY AppendProperties DEF IInv, TypeInv, Enqueue
<1>2. TypeInv' /\ PhaseInv'
  BY <1>1 DEF IInv, TypeInv, PhaseInv, Enqueue, Channelwise
<1>3. OrderInv'
  BY DEF IInv, OrderInv, Enqueue
<1>4. QED
  BY <1>2, <1>3 DEF IInv

(* the next work item,                                                     *)
LEMMA TakeStep ==
  ASSUME Assumptions, IInv, Take
  PROVE  IInv'
<1>1. queue' \in Seq(Seq(Commands)) /\ cmds' \in Seq(Commands)
  BY HeadTailProperties DEF IInv, TypeInv, Take
<1>2. TypeInv' /\ PhaseInv'
  BY <1>1 DEF IInv, TypeInv, PhaseInv, Take, Channelwise
<1>3. OrderInv'
  BY DEF IInv, OrderInv, Take
<1>4. QED
  BY <1>2, <1>3 DEF IInv

(* queueSend adds the next number at the end of its channel's buffer,      *)
LEMMA SendStep ==
  ASSUME Assumptions, IInv, ExecuteSend
  PROVE  IInv'
<1> DEFINE c == Head(cmds).channel
<1>1. cmds' \in Seq(Commands) /\ c \in Channels
  <2>1. cmds' \in Seq(Commands) /\ Head(cmds) \in Commands
    BY HeadTailProperties DEF IInv, TypeInv, ExecuteSend
  <2>2. QED
    BY <2>1 DEF Commands
<1>2. /\ made' = [made EXCEPT ![c] = @ + 1]
      /\ buffer' = [buffer EXCEPT ![c] = Append(@, made[c] + 1)]
      /\ UNCHANGED <<queue, phase, snapshot, sent, model, cached, replies, throws>>
  BY DEF ExecuteSend
<1> HIDE DEF c
<1>3. /\ made[c] \in Nat /\ made'[c] = made[c] + 1 /\ \A d \in Channels : d # c => made'[d] = made[d]
      /\ buffer[c] \in Seq(Nat) /\ buffer'[c] = Append(buffer[c], made[c] + 1)
      /\ \A d \in Channels : d # c => buffer'[d] = buffer[d]
  BY <1>1, <1>2 DEF IInv, TypeInv, Channelwise
<1>4. sent[c] \in Seq(Nat) /\ snapshot[c] \in Seq(Nat)
  BY <1>1 DEF IInv, TypeInv, Channelwise
<1>5. /\ Rising(sent[c]) /\ Rising(snapshot[c]) /\ Rising(buffer[c])
      /\ Below(sent[c], snapshot[c]) /\ Below(sent[c], buffer[c]) /\ Below(snapshot[c], buffer[c])
      /\ UpTo(sent[c], made[c]) /\ UpTo(snapshot[c], made[c]) /\ UpTo(buffer[c], made[c])
  BY <1>1 DEF IInv, OrderInv
<1>6. /\ buffer'[c] \in Seq(Nat) /\ Rising(buffer'[c]) /\ UpTo(buffer'[c], made'[c])
      /\ Below(sent[c], buffer'[c]) /\ Below(snapshot[c], buffer'[c])
  BY <1>3, <1>4, <1>5, AppendRises
<1>7. UpTo(sent[c], made'[c]) /\ UpTo(snapshot[c], made'[c])
  <2>1. ASSUME NEW s \in Seq(Nat), UpTo(s, made[c]) PROVE UpTo(s, made'[c])
    <3>1. ASSUME NEW i \in DOMAIN s PROVE s[i] <= made[c] + 1
      <4>1. s[i] \in Nat /\ s[i] <= made[c]
        BY <2>1, ElementOfSeq DEF UpTo
      <4>2. QED
        BY <4>1, <1>3
    <3>2. QED
      BY <3>1, <1>3 DEF UpTo
  <2>2. QED
    BY <2>1, <1>4, <1>5
<1>8. TypeInv'
  <2>1. Channelwise(buffer)' /\ made' \in [Channels -> Nat]
    BY <1>1, <1>2, <1>3, <1>6 DEF IInv, TypeInv, Channelwise
  <2>2. QED
    BY <2>1, <1>1, <1>2 DEF IInv, TypeInv, Channelwise
<1>9. PhaseInv'
  BY <1>2 DEF IInv, PhaseInv, ExecuteSend
<1>10. OrderInv'
  <2>1. ASSUME NEW d \in Channels
        PROVE  /\ Rising(sent'[d]) /\ Rising(snapshot'[d]) /\ Rising(buffer'[d])
               /\ Below(sent'[d], snapshot'[d]) /\ Below(sent'[d], buffer'[d]) /\ Below(snapshot'[d], buffer'[d])
               /\ UpTo(sent'[d], made'[d]) /\ UpTo(snapshot'[d], made'[d]) /\ UpTo(buffer'[d], made'[d])
    <3>1. CASE d = c
      BY <3>1, <1>2, <1>5, <1>6, <1>7
    <3>2. CASE d # c
      BY <3>2, <1>2, <1>3 DEF IInv, OrderInv
    <3>3. QED
      BY <3>1, <3>2
  <2>2. QED
    BY <2>1 DEF OrderInv
<1>11. QED
  BY <1>8, <1>9, <1>10 DEF IInv

(* an import, whose dispatch adds sends to the commands,                   *)
LEMMA ImportStep ==
  ASSUME Assumptions, IInv, ExecuteImport
  PROVE  IInv'
<1>1. cmds' \in Seq(Commands)
  <2>1. Tail(cmds) \in Seq(Commands)
    BY HeadTailProperties DEF IInv, TypeInv, ExecuteImport
  <2>2. SetToSeq({Send(c) : c \in Channels \ {Head(cmds).channel}}) \in Seq(Commands)
    BY CommandsOf DEF Assumptions
  <2>3. QED
    BY <2>1, <2>2, ConcatProperties DEF ExecuteImport
<1>2. TypeInv' /\ PhaseInv'
  BY <1>1 DEF IInv, TypeInv, PhaseInv, ExecuteImport, Channelwise
<1>3. OrderInv'
  BY DEF IInv, OrderInv, ExecuteImport
<1>4. QED
  BY <1>2, <1>3 DEF IInv

(* an establishment message,                                               *)
LEMMA HelloStep ==
  ASSUME Assumptions, IInv, ExecuteHello
  PROVE  IInv'
<1>1. cmds' \in Seq(Commands) /\ Head(cmds).channel \in Channels
  <2>1. cmds' \in Seq(Commands) /\ Head(cmds) \in Commands
    BY HeadTailProperties DEF IInv, TypeInv, ExecuteHello
  <2>2. QED
    BY <2>1 DEF Commands
<1>2. queue' \in Seq(Seq(Commands)) /\ replies' \in Nat /\ replies' <= MaxReplies
  BY <1>1, AnswerTyped DEF IInv, ExecuteHello
<1>3. TypeInv' /\ PhaseInv'
  BY <1>1, <1>2 DEF IInv, TypeInv, PhaseInv, ExecuteHello, Channelwise
<1>4. OrderInv'
  BY DEF IInv, OrderInv, ExecuteHello
<1>5. QED
  BY <1>3, <1>4 DEF IInv

(* an import that throws.                                                  *)
LEMMA ThrowStep ==
  ASSUME Assumptions, IInv, ImportThrows
  PROVE  IInv'
<1>1. TypeInv' /\ PhaseInv'
  BY DEF IInv, TypeInv, PhaseInv, ImportThrows, Channelwise, Assumptions, BoundAssumption
<1>2. OrderInv'
  BY DEF IInv, OrderInv, ImportThrows
<1>3. QED
  BY <1>1, <1>2 DEF IInv

(* The flush takes the buffer, when it holds nothing else,                 *)
LEMMA BeginFlushStep ==
  ASSUME Assumptions, IInv, BeginFlush
  PROVE  IInv'
<1>1. TypeInv' /\ PhaseInv'
  BY EmptyIs DEF IInv, TypeInv, PhaseInv, BeginFlush, Channelwise
<1>2. /\ snapshot' = buffer /\ \A c \in Channels : buffer'[c] = <<>>
      /\ UNCHANGED <<sent, made>>
  BY EmptyIs DEF BeginFlush
<1>3. \A s : Rising(<<>>) /\ Below(s, <<>>) /\ UpTo(<<>>, s)
  BY DEF Rising, Below, UpTo
<1>4. OrderInv'
  BY <1>2, <1>3 DEF IInv, OrderInv
<1>5. QED
  BY <1>1, <1>4 DEF IInv

(* hands a channel its messages, which follow those it was given,          *)
LEMMA FlushStep ==
  ASSUME Assumptions, IInv, NEW c \in Channels, FlushChannel(c)
  PROVE  IInv'
<1>1. /\ sent' = [sent EXCEPT ![c] = @ \o snapshot[c]]
      /\ snapshot' = [snapshot EXCEPT ![c] = <<>>]
      /\ UNCHANGED <<phase, cmds, buffer, made, model, cached, throws>>
      /\ phase = "flush"
  BY DEF FlushChannel
<1>2. queue' \in Seq(Seq(Commands)) /\ replies' \in Nat /\ replies' <= MaxReplies
  BY AnswerTyped DEF IInv, FlushChannel
<1>3. /\ sent[c] \in Seq(Nat) /\ snapshot[c] \in Seq(Nat) /\ buffer[c] \in Seq(Nat) /\ made[c] \in Nat
      /\ sent'[c] = sent[c] \o snapshot[c] /\ \A d \in Channels : d # c => sent'[d] = sent[d]
      /\ snapshot'[c] = <<>> /\ \A d \in Channels : d # c => snapshot'[d] = snapshot[d]
  BY <1>1 DEF IInv, TypeInv, Channelwise
<1>4. /\ Rising(sent[c]) /\ Rising(snapshot[c]) /\ Rising(buffer[c])
      /\ Below(sent[c], snapshot[c]) /\ Below(sent[c], buffer[c]) /\ Below(snapshot[c], buffer[c])
      /\ UpTo(sent[c], made[c]) /\ UpTo(snapshot[c], made[c]) /\ UpTo(buffer[c], made[c])
  BY DEF IInv, OrderInv
<1>5. /\ sent'[c] \in Seq(Nat) /\ Rising(sent'[c]) /\ UpTo(sent'[c], made[c]) /\ Below(sent'[c], buffer[c])
  BY <1>3, <1>4, ConcatRises
<1>6. \A s : Rising(<<>>) /\ Below(s, <<>>) /\ Below(<<>>, s) /\ UpTo(<<>>, s)
  BY DEF Rising, Below, UpTo
<1>7. TypeInv'
  <2>1. Channelwise(sent)' /\ Channelwise(snapshot)'
    BY <1>1, <1>3, <1>5 DEF IInv, TypeInv, Channelwise
  <2>2. QED
    BY <2>1, <1>1, <1>2 DEF IInv, TypeInv, Channelwise
<1>8. PhaseInv'
  BY <1>1 DEF IInv, PhaseInv
<1>9. OrderInv'
  <2>1. ASSUME NEW d \in Channels
        PROVE  /\ Rising(sent'[d]) /\ Rising(snapshot'[d]) /\ Rising(buffer'[d])
               /\ Below(sent'[d], snapshot'[d]) /\ Below(sent'[d], buffer'[d]) /\ Below(snapshot'[d], buffer'[d])
               /\ UpTo(sent'[d], made'[d]) /\ UpTo(snapshot'[d], made'[d]) /\ UpTo(buffer'[d], made'[d])
    <3>1. CASE d = c
      BY <3>1, <1>1, <1>3, <1>4, <1>5, <1>6
    <3>2. CASE d # c
      BY <3>2, <1>1, <1>3 DEF IInv, OrderInv
    <3>3. QED
      BY <3>1, <3>2
  <2>2. QED
    BY <2>1 DEF OrderInv
<1>10. QED
  BY <1>7, <1>8, <1>9 DEF IInv

(* and drops what it holds when a send throws.                             *)
LEMMA FlushThrowsStep ==
  ASSUME Assumptions, IInv, NEW c \in Channels, FlushThrows(c)
  PROVE  IInv'
<1>1. throws' \in Nat /\ throws' <= MaxThrows
  <2>1. throws \in Nat /\ MaxThrows \in Nat /\ throws < MaxThrows /\ throws' = throws + 1
    BY DEF IInv, TypeInv, FlushThrows, Assumptions, BoundAssumption
  <2>2. QED
    BY <2>1
<1>2. TypeInv' /\ PhaseInv'
  BY <1>1, EmptyIs DEF IInv, TypeInv, PhaseInv, FlushThrows, Channelwise
<1>3. \A d \in Channels : snapshot'[d] = <<>>
  BY EmptyIs DEF FlushThrows
<1>4. \A s : Rising(<<>>) /\ Below(s, <<>>) /\ Below(<<>>, s) /\ UpTo(<<>>, s)
  BY DEF Rising, Below, UpTo
<1>5. OrderInv'
  BY <1>3, <1>4 DEF IInv, OrderInv, FlushThrows
<1>6. QED
  BY <1>2, <1>5 DEF IInv

(* The loop comes to rest.                                                 *)
LEMMA QuiesceStep ==
  ASSUME Assumptions, IInv, Quiesce
  PROVE  IInv'
<1>1. TypeInv' /\ PhaseInv'
  BY DEF IInv, TypeInv, PhaseInv, Quiesce, Channelwise
<1>2. OrderInv'
  BY DEF IInv, OrderInv, Quiesce
<1>3. QED
  BY <1>1, <1>2 DEF IInv

(* Every step keeps the invariant.                                         *)
LEMMA Step == ASSUME Assumptions, IInv, [Next]_vars PROVE IInv'
<1>1. CASE UNCHANGED vars
  BY <1>1 DEF vars, IInv, TypeInv, PhaseInv, OrderInv, Channelwise
<1>2. ASSUME NEW w \in Works, Stimulus(w) PROVE IInv'
  BY <1>2, EnqueueStep DEF Stimulus, Assumptions, WorkAssumption
<1>3. CASE Heartbeat
  <2>1. <<>> \in Seq(Commands)
    OBVIOUS
  <2>2. QED
    BY <1>3, <2>1, EnqueueStep DEF Heartbeat
<1>4. CASE Runs
  BY <1>4, TakeStep, SendStep, ImportStep, HelloStep, ThrowStep, BeginFlushStep, QuiesceStep,
     FlushStep, FlushThrowsStep DEF Runs
<1>5. QED
  BY <1>1, <1>2, <1>3, <1>4 DEF Next

(* So it always holds.                                                     *)
LEMMA Invariant == ASSUME Assumptions PROVE Spec => []IInv
<1>1. Init => IInv
  BY InitInv
<1>2. IInv /\ [Next]_vars => IInv'
  BY Step
<1>3. QED
  BY <1>1, <1>2, PTL DEF Spec

(* The queue holds commands, the buffers numbered messages, and the ready  *)
(* states that were emitted were once the model's.                         *)
THEOREM TypeCorrect ==
  ASSUME ChannelAssumption, WorkAssumption, BoundAssumption PROVE Spec => []TypeOK
<1>1. Assumptions
  BY DEF Assumptions
<1>2. IInv => TypeOK
  BY <1>1 DEF IInv, TypeInv, TypeOK, Channelwise, Assumptions, BoundAssumption
<1>3. QED
  BY <1>1, <1>2, Invariant, PTL

(* Whatever throws, and whatever is queued while a flush is under way, no  *)
(* message is sent twice or after a later one.                             *)
THEOREM NoneTwice ==
  ASSUME ChannelAssumption, WorkAssumption, BoundAssumption PROVE Spec => []NeverTwice
<1>1. Assumptions
  BY DEF Assumptions
<1>2. IInv => NeverTwice
  BY DEF IInv, OrderInv, Rising, NeverTwice
<1>3. QED
  BY <1>1, <1>2, Invariant, PTL

(* The messages made for a channel, all of them.                           *)
Numbered(k) == [n \in 1 .. k |-> n]

(* Those that were sent, then those the flush holds, then the buffer's.    *)
Line(c) == sent[c] \o snapshot[c] \o buffer[c]

(* While nothing has thrown, none of them is missing, and the loop leaves  *)
(* nothing behind; what is queued during a flush does not reach the        *)
(* buffer before the loop looks again.                                     *)
CalmInv ==
  throws = 0 =>
    /\ \A c \in Channels : Line(c) = Numbered(made[c])
    /\ phase = "idle" => Quiet
    /\ phase = "flush" => buffer = Empty

(* A message at the end of the buffer is at the end of the line.           *)
LEMMA AppendLast ==
  ASSUME NEW s \in Seq(Nat), NEW t \in Seq(Nat), NEW u \in Seq(Nat), NEW e \in Nat
  PROVE  s \o t \o Append(u, e) = Append(s \o t \o u, e)
<1>1. s \o t \in Seq(Nat) /\ (s \o t) \o u \in Seq(Nat) /\ <<e>> \in Seq(Nat)
  BY ConcatProperties
<1>2. Append(u, e) = u \o <<e>> /\ Append((s \o t) \o u, e) = ((s \o t) \o u) \o <<e>>
  BY <1>1, AppendIsConcat
<1>3. ((s \o t) \o u) \o <<e>> = (s \o t) \o (u \o <<e>>)
  <2> DEFINE p == s \o t
             one == <<e>>
  <2>1. p \in Seq(Nat) /\ one \in Seq(Nat)
    BY <1>1
  <2> HIDE DEF p, one
  <2>2. (p \o u) \o one = p \o (u \o one)
    BY <2>1
  <2>3. QED
    BY <2>2 DEF p, one
<1>4. QED
  BY <1>2, <1>3

(* One message more.                                                       *)
LEMMA OneMore ==
  ASSUME NEW k \in Nat
  PROVE  Append(Numbered(k), k + 1) = Numbered(k + 1)
<1> DEFINE a == Append(Numbered(k), k + 1)
<1>1. Numbered(k) \in Seq(Nat) /\ Len(Numbered(k)) = k /\ \A i \in 1 .. k : Numbered(k)[i] = i
  BY DEF Numbered
<1>2. a \in Seq(Nat) /\ Len(a) = k + 1 /\ (\A i \in 1 .. k : a[i] = i) /\ a[k + 1] = k + 1
  BY <1>1, AppendProperties
<1> HIDE DEF a
<1>3. \A i \in 1 .. k + 1 : a[i] = i
  <2>1. \A i \in 1 .. k + 1 : i \in 1 .. k \/ i = k + 1
    OBVIOUS
  <2>2. QED
    BY <2>1, <1>2
<1>4. a = [i \in 1 .. k + 1 |-> i]
  <2>1. a = [i \in 1 .. Len(a) |-> a[i]]
    BY <1>2
  <2>2. QED
    BY <2>1, <1>2, <1>3
<1>5. QED
  BY <1>4 DEF Numbered, a

(* At the start there are none.                                            *)
LEMMA CalmStart == ASSUME Assumptions, Init PROVE CalmInv
<1>1. \A c \in Channels : sent[c] = <<>> /\ snapshot[c] = <<>> /\ buffer[c] = <<>> /\ made[c] = 0
  BY EmptyIs DEF Init
<1>2. <<>> \o <<>> \o <<>> = Numbered(0)
  <2>1. Numbered(0) = <<>>
    BY DEF Numbered
  <2>2. QED
    BY <2>1
<1>3. phase = "idle" /\ Quiet
  BY DEF Init, Quiet
<1>4. QED
  BY <1>1, <1>2, <1>3 DEF CalmInv, Line

(* Steps that leave messages alone.                                        *)
LEMMA LinesSame ==
  ASSUME UNCHANGED <<sent, snapshot, buffer, made>>, \A c \in Channels : Line(c) = Numbered(made[c])
  PROVE  \A c \in Channels : Line(c)' = Numbered(made'[c])
BY DEF Line

(* A message made is the last of its line.                                 *)
LEMMA SendCalm ==
  ASSUME Assumptions, IInv, CalmInv, ExecuteSend, throws' = 0
  PROVE  \A c \in Channels : Line(c)' = Numbered(made'[c])
<1>1. PICK c \in Channels : c = Head(cmds).channel
  <2>1. Head(cmds) \in Commands
    BY HeadTailProperties DEF IInv, TypeInv, ExecuteSend
  <2>2. QED
    BY <2>1 DEF Commands
<1>2. /\ made' = [made EXCEPT ![c] = @ + 1]
      /\ buffer' = [buffer EXCEPT ![c] = Append(@, made[c] + 1)]
      /\ UNCHANGED <<snapshot, sent, throws>>
  BY <1>1 DEF ExecuteSend
<1>3. /\ made[c] \in Nat /\ made'[c] = made[c] + 1 /\ \A d \in Channels : d # c => made'[d] = made[d]
      /\ buffer[c] \in Seq(Nat) /\ sent[c] \in Seq(Nat) /\ snapshot[c] \in Seq(Nat)
      /\ buffer'[c] = Append(buffer[c], made[c] + 1)
      /\ \A d \in Channels : d # c => buffer'[d] = buffer[d]
  BY <1>1, <1>2 DEF IInv, TypeInv, Channelwise
<1>4. \A d \in Channels : Line(d) = Numbered(made[d])
  BY <1>2 DEF CalmInv
<1>5. Line(c)' = Numbered(made'[c])
  <2>1. Line(c)' = sent[c] \o snapshot[c] \o Append(buffer[c], made[c] + 1)
    BY <1>2, <1>3 DEF Line
  <2>2. Line(c)' = Append(Line(c), made[c] + 1)
    <3>1. made[c] + 1 \in Nat
      BY <1>3
    <3>2. sent[c] \o snapshot[c] \o Append(buffer[c], made[c] + 1)
            = Append(sent[c] \o snapshot[c] \o buffer[c], made[c] + 1)
      BY <3>1, <1>3, AppendLast
    <3>3. QED
      BY <2>1, <3>2 DEF Line
  <2>3. QED
    BY <2>2, <1>1, <1>3, <1>4, OneMore
<1>6. ASSUME NEW d \in Channels, d # c PROVE Line(d)' = Numbered(made'[d])
  <2>1. Line(d)' = Line(d)
    BY <1>6, <1>2, <1>3 DEF Line
  <2>2. QED
    BY <2>1, <1>6, <1>3, <1>4
<1>7. QED
  BY <1>5, <1>6

(* The flush takes the buffer as it is, after what was sent.               *)
LEMMA BeginCalm ==
  ASSUME Assumptions, IInv, CalmInv, BeginFlush, throws' = 0
  PROVE  \A c \in Channels : Line(c)' = Numbered(made'[c])
<1>1. ASSUME NEW c \in Channels PROVE Line(c)' = Line(c)
  <2>1. sent[c] \in Seq(Nat) /\ buffer[c] \in Seq(Nat) /\ snapshot[c] = <<>>
    BY EmptyIs DEF IInv, TypeInv, PhaseInv, Channelwise, BeginFlush
  <2>2. sent'[c] = sent[c] /\ snapshot'[c] = buffer[c] /\ buffer'[c] = <<>>
    BY EmptyIs DEF BeginFlush
  <2>3. Line(c) = sent[c] \o buffer[c] /\ sent[c] \o buffer[c] \in Seq(Nat)
    BY <2>1, ConcatEmptySeq, ConcatProperties DEF Line
  <2>4. Line(c)' = (sent[c] \o buffer[c]) \o <<>>
    BY <2>2 DEF Line
  <2>5. QED
    BY <2>3, <2>4, ConcatEmptySeq
<1>2. QED
  BY <1>1 DEF CalmInv, BeginFlush

(* What a channel is given moves within its line.                          *)
LEMMA FlushCalm ==
  ASSUME Assumptions, IInv, CalmInv, NEW c \in Channels, FlushChannel(c), throws' = 0
  PROVE  \A d \in Channels : Line(d)' = Numbered(made'[d])
<1>1. /\ sent' = [sent EXCEPT ![c] = @ \o snapshot[c]]
      /\ snapshot' = [snapshot EXCEPT ![c] = <<>>]
      /\ UNCHANGED <<buffer, made, throws>>
  BY DEF FlushChannel
<1>2. ASSUME NEW d \in Channels PROVE Line(d)' = Line(d)
  <2>1. sent[d] \in Seq(Nat) /\ snapshot[d] \in Seq(Nat)
    BY DEF IInv, TypeInv, Channelwise
  <2>2. CASE d = c
    <3>1. sent'[c] = sent[c] \o snapshot[c] /\ snapshot'[c] = <<>>
      BY <1>1 DEF IInv, TypeInv, Channelwise
    <3>2. sent'[c] \in Seq(Nat)
      BY <2>1, <2>2, <3>1, ConcatProperties
    <3>3. QED
      BY <2>2, <3>1, <3>2, <1>1, ConcatEmptySeq DEF Line
  <2>3. CASE d # c
    BY <2>3, <1>1 DEF Line, IInv, TypeInv, Channelwise
  <2>4. QED
    BY <2>2, <2>3
<1>3. QED
  BY <1>1, <1>2 DEF CalmInv

(* Every step that does not throw keeps this.                              *)
LEMMA CalmStep ==
  ASSUME Assumptions, IInv, CalmInv, [Next]_vars PROVE CalmInv'
<1>1. throws \in Nat
  BY DEF IInv, TypeInv
<1>2. SUFFICES ASSUME throws' = 0
               PROVE  /\ \A c \in Channels : Line(c)' = Numbered(made'[c])
                      /\ phase' = "idle" => Quiet'
                      /\ phase' = "flush" => buffer' = Empty
  BY DEF CalmInv
<1>3. CASE UNCHANGED vars
  BY <1>2, <1>3, LinesSame DEF vars, CalmInv, Quiet
<1> DEFINE Calm == /\ \A c \in Channels : Line(c)' = Numbered(made'[c])
                   /\ phase' = "idle" => Quiet'
                   /\ phase' = "flush" => buffer' = Empty
<1>4. ASSUME NEW w, Enqueue(w) PROVE Calm
  BY <1>2, <1>4, LinesSame DEF Enqueue, CalmInv
<1>5. CASE Take
  BY <1>2, <1>5, LinesSame DEF Take, CalmInv
<1>6. CASE ExecuteSend
  <2>1. phase' = "work"
    BY <1>6 DEF IInv, PhaseInv, ExecuteSend
  <2>2. QED
    BY <1>2, <1>6, <2>1, SendCalm
<1>7. CASE ExecuteImport
  <2>1. phase' = "work"
    BY <1>7 DEF IInv, PhaseInv, ExecuteImport
  <2>2. QED
    BY <1>2, <1>7, <2>1, LinesSame DEF ExecuteImport, CalmInv
<1>8. CASE ExecuteHello
  <2>1. phase' = "work"
    BY <1>8 DEF IInv, PhaseInv, ExecuteHello
  <2>2. QED
    BY <1>2, <1>8, <2>1, LinesSame DEF ExecuteHello, CalmInv
<1>9. ASSUME ImportThrows \/ \E c \in Channels : FlushThrows(c) PROVE FALSE
  BY <1>1, <1>2, <1>9 DEF ImportThrows, FlushThrows
<1>10. CASE BeginFlush
  BY <1>2, <1>10, BeginCalm DEF BeginFlush
<1>11. ASSUME NEW c \in Channels, FlushChannel(c) PROVE Calm
  <2>1. phase' = "flush" /\ buffer' = buffer /\ throws = 0 /\ phase = "flush"
    BY <1>2, <1>11 DEF FlushChannel
  <2>2. QED
    BY <1>2, <1>11, <2>1, FlushCalm DEF CalmInv
<1>12. CASE Quiesce
  <2>1. throws = 0 /\ phase = "flush" /\ UNCHANGED <<sent, snapshot, buffer, made, queue, model>>
        /\ cached' = model /\ phase' = IF queue # <<>> THEN "work" ELSE "idle"
    BY <1>2, <1>12 DEF Quiesce
  <2>2. QED
    BY <2>1, LinesSame DEF CalmInv, Quiet
<1>13. QED
  BY <1>2, <1>3, <1>4, <1>5, <1>6, <1>7, <1>8, <1>9, <1>10, <1>11, <1>12
     DEF Next, Stimulus, Heartbeat, Runs

(* So it holds until something throws.                                     *)
LEMMA CalmHolds ==
  ASSUME Assumptions PROVE Spec => []CalmInv
<1>1. Init => CalmInv
  BY CalmStart
<1>2. IInv /\ CalmInv /\ [Next]_vars => CalmInv'
  BY CalmStep
<1>3. QED
  BY <1>1, <1>2, Invariant, PTL DEF Spec

(* As long as nothing throws, no message is lost, sent twice or            *)
(* overtaken: what was sent, what the flush holds and what is buffered     *)
(* are all that were made, in their order.                                 *)
THEOREM AllGoOut ==
  ASSUME ChannelAssumption, WorkAssumption, BoundAssumption
  PROVE  Spec => [](throws = 0 => AllInOrder)
<1>1. Assumptions
  BY DEF Assumptions
<1>2. CalmInv => (throws = 0 => AllInOrder)
  BY DEF CalmInv, AllInOrder, Line, Numbered
<1>3. QED
  BY <1>1, <1>2, CalmHolds, PTL

(* As long as nothing throws, nothing waits when the loop is at rest: no   *)
(* work item, no message, no ready state.                                  *)
THEOREM RestsQuiet ==
  ASSUME ChannelAssumption, WorkAssumption, BoundAssumption
  PROVE  Spec => [](throws = 0 => RestIsQuiet)
<1>1. Assumptions
  BY DEF Assumptions
<1>2. CalmInv => (throws = 0 => RestIsQuiet)
  BY DEF CalmInv, RestIsQuiet
<1>3. QED
  BY <1>1, <1>2, CalmHolds, PTL
=============================================================================
