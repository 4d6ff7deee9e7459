----------------------------- MODULE Reassembler -----------------------------
(***************************************************************************)
(* Fragmented messages (packages/wire-format/src/fragment.ts) and their    *)
(* reassembly at the receiver (reassembler.ts), over a transport that may  *)
(* lose, delay, reorder and repeat what is sent: WebSocket and WebRTC keep *)
(* order, the retried POSTs of the SSE client do not.                      *)
(***************************************************************************)
EXTENDS Integers, FiniteSets, SequencesExt, FiniteSetTheorems,
        SequenceTheorems, TLAPS

CONSTANTS
  Msgs,        \* messages longer than the threshold
  Count,       \* how many fragments each one makes; a fragment is one unit
  MaxBatches,  \* maxConcurrentBatches
  MaxBytes,    \* maxTotalReassemblyBytes, in fragments
  Copies       \* bound: how often the transport delivers a payload

CountAssumption == Count \in [Msgs -> Nat \ {0}]
LimitAssumption == {MaxBatches, MaxBytes, Copies} \subseteq Nat \ {0}

VARIABLES
  sent,        \* the messages fragmented so far
  arrived,     \* how often each payload was delivered
  batches,     \* the batches in flight, oldest first
  totalBytes,
  timers,      \* the timers set and not cleared: the batch each is for
  disposed,
  complete,    \* how often each message was handed on
  dropped,     \* messages of which a batch was evicted or timed out
  early        \* messages of which a fragment came without a batch

vars == <<sent, arrived, batches, totalBytes, timers, disposed, complete, dropped, early>>

-----------------------------------------------------------------------------
(* fragmentPayload: a header, then the fragments by index.                 *)
Header(m) == <<m, 0>>
Payloads(m) == {Header(m)} \cup {<<m, i>> : i \in 1 .. Count[m]}
AllPayloads == UNION {Payloads(m) : m \in Msgs}

(* batches is a Map in the code: no two of them are of one message.        *)
Keys == {b.msg : b \in Range(batches)}
Of(bs, m) == {b \in Range(bs) : b.msg = m}
MsgsOf(some) == {b.msg : b \in some}

(* What some batches have received.                                        *)
Held(some) == UNION {{b.msg} \X b.got : b \in some}
Bytes(some) == Cardinality(Held(some))

Oldest(bs, k) == {bs[j] : j \in 1 .. k}
Newer(bs, k) == SubSeq(bs, k + 1, Len(bs))

(* The batches without that of a message.                                  *)
Place(bs, m) == CHOOSE j \in DOMAIN bs : bs[j].msg = m
Without(bs, m) == IF Of(bs, m) = {} THEN bs ELSE RemoveAt(bs, Place(bs, m))

(* Bug: one clearTimeout too many.                                         *)
AllCleared(some) == IF some = {} THEN timers ELSE {}

(* The timers left when the timers of some batches are cleared.            *)
Cleared(some) == timers \ {b.timer : b \in some}

(* The total once the bytes of some batches are given back.                *)
Released(total, some) == total - Bytes(some)

Init ==
  /\ sent = {}
  /\ arrived = [p \in AllPayloads |-> 0]
  /\ batches = <<>> /\ totalBytes = 0 /\ timers = {}
  /\ disposed = FALSE
  /\ complete = [m \in Msgs |-> 0]
  /\ dropped = {} /\ early = {}

Send(m) ==
  /\ m \notin sent
  /\ sent' = sent \cup {m}
  /\ UNCHANGED <<arrived, batches, totalBytes, timers, disposed, complete, dropped, early>>

(* The transport delivers a payload, perhaps once more.                    *)
Arrives(p) ==
  /\ p[1] \in sent /\ arrived[p] < Copies
  /\ arrived' = [arrived EXCEPT ![p] = @ + 1]
  /\ UNCHANGED sent

NewBatch(m, t) == [msg |-> m, got |-> {}, timer |-> <<m, t>>]

(* handleFragmentHeader: a batch in progress stays as it is; at the limit  *)
(* the oldest batch makes room.                                            *)
HandleFragmentHeader(m) ==
  LET t   == arrived'[Header(m)]
      k   == IF Len(batches) >= MaxBatches THEN 1 ELSE 0
      out == Oldest(batches, k)
  IN /\ Arrives(Header(m))
     /\ IF disposed \/ m \in Keys
          THEN UNCHANGED <<batches, totalBytes, timers, dropped>>
          ELSE /\ batches' = Append(Newer(batches, k), NewBatch(m, t))
               /\ totalBytes' = Released(totalBytes, out)
               /\ timers' = Cleared(out) \cup {<<m, t>>}
               /\ dropped' = dropped \cup MsgsOf(out)
     /\ UNCHANGED <<disposed, complete, early>>

(* How many of the oldest batches go until the memory limit is kept: as    *)
(* long as it is exceeded once so many are gone, another one goes.         *)
Exceeding(bs, total) ==
  {l \in 0 .. Len(bs) - 1 : Released(total, Oldest(bs, l)) > MaxBytes}
Evictions(bs, total) == Cardinality(Exceeding(bs, total))

Grown(b, i) == [b EXCEPT !.got = @ \cup {i}]

(* A fragment that is there already is an error and changes nothing.       *)
Duplicate(b, i) == i \in b.got

(* handleFragmentData and completeBatch: without a batch the fragment is   *)
(* ignored; otherwise it is added, memory is made, and the batch, if it is *)
(* still there and whole, is handed on.                                    *)
HandleFragmentData(m, i) ==
  LET j     == Place(batches, m)
      added == [batches EXCEPT ![j] = Grown(@, i)]
      k     == Evictions(added, totalBytes + 1)
      out   == Oldest(added, k)
      left  == Newer(added, k)
      total == Released(totalBytes + 1, out)
      whole == {b \in Of(left, m) : Cardinality(b.got) = Count[m]}
  IN /\ Arrives(<<m, i>>)
     /\ IF disposed THEN UNCHANGED <<batches, totalBytes, timers, complete, dropped, early>>
        ELSE IF m \notin Keys
          THEN early' = early \cup {m} /\ UNCHANGED <<batches, totalBytes, timers, complete, dropped>>
        ELSE IF Duplicate(batches[j], i)
          THEN UNCHANGED <<batches, totalBytes, timers, complete, dropped, early>>
        ELSE
          /\ dropped' = dropped \cup MsgsOf(out)
          /\ batches' = IF whole = {} THEN left ELSE Without(left, m)
          /\ totalBytes' = Released(total, whole)
          /\ timers' = Cleared(out \cup whole)
          /\ complete' = IF whole = {} THEN complete ELSE [complete EXCEPT ![m] = @ + 1]
          /\ UNCHANGED early
     /\ UNCHANGED disposed

(* handleTimeout: a timer removes whatever batch has its key.              *)
HandleTimeout(t) ==
  LET gone == Of(batches, t[1])
  IN /\ t \in timers
     /\ timers' = timers \ {t}
     /\ batches' = Without(batches, t[1])
     /\ totalBytes' = Released(totalBytes, gone)
     /\ dropped' = dropped \cup MsgsOf(gone)
     /\ UNCHANGED <<sent, arrived, disposed, complete, early>>

Dispose ==
  /\ ~ disposed
  /\ disposed' = TRUE
  /\ timers' = Cleared(Range(batches))
  /\ batches' = <<>> /\ totalBytes' = 0
  /\ UNCHANGED <<sent, arrived, complete, dropped, early>>

Next ==
  \/ \E m \in Msgs : Send(m) \/ HandleFragmentHeader(m)
  \/ \E m \in Msgs : \E i \in 1 .. Count[m] : HandleFragmentData(m, i)
  \/ \E t \in timers : HandleTimeout(t)
  \/ Dispose

Spec == Init /\ [][Next]_vars

(* Timers fire.                                                            *)
FairSpec == Spec /\ WF_vars(\E t \in timers : HandleTimeout(t))

-----------------------------------------------------------------------------
Batches == [msg : Msgs, got : SUBSET Nat, timer : Msgs \X (1 .. Copies)]

(* The values of the reassembler's state (reassembler.ts:109).             *)
TypeOK ==
  /\ sent \subseteq Msgs /\ dropped \subseteq Msgs /\ early \subseteq Msgs
  /\ arrived \in [AllPayloads -> 0 .. Copies]
  /\ batches \in Seq(Batches)
  /\ totalBytes \in Nat
  /\ timers \subseteq Msgs \X (1 .. Copies)
  /\ complete \in [Msgs -> 0 .. Copies]

(* Whatever was evicted, timed out, completed or disposed, the byte count  *)
(* is that of the batches in flight and within its limit: otherwise it     *)
(* would creep up and evict batches for nothing (reassembler.ts:286).      *)
WithinLimits ==
  /\ totalBytes = Bytes(Range(batches)) /\ totalBytes <= MaxBytes
  /\ Len(batches) <= MaxBatches

(* Each batch in flight has its own timer and there is no other: a timer   *)
(* left over would end a later batch of the same id (reassembler.ts:232).  *)
OwnTimers ==
  /\ timers = {b.timer : b \in Range(batches)}
  /\ \A j, k \in DOMAIN batches : batches[j].msg = batches[k].msg => j = k

(* A message is never made up: it is handed on no more often than each of  *)
(* its payloads arrived, those of a batch in flight not counted            *)
(* (reassembler.ts:269).                                                   *)
NeverMadeUp ==
  \A m \in Msgs : \A p \in Payloads(m) :
    LET held == IF \E b \in Of(batches, m) : p = Header(m) \/ p[2] \in b.got
                THEN 1 ELSE 0
    IN complete[m] + held <= arrived[p]

(* A message all of whose payloads arrived, the header first, is handed on *)
(* unless its batch was evicted or timed out (reassembler.ts:300).         *)
HandedOn ==
  \A m \in Msgs \ (dropped \cup early) :
    (\A p \in Payloads(m) : arrived[p] > 0) => disposed \/ complete[m] > 0

(* A batch does not stay for ever: it completes or is given up             *)
(* (reassembler.ts:355).                                                   *)
BatchesEnd == \A m \in Msgs : []<>(m \notin Keys)

-----------------------------------------------------------------------------
(* Finitely many batches with finitely many fragments, one of a message.   *)
Apart(some) ==
  /\ IsFiniteSet(some) /\ \A b \in some : IsFiniteSet(b.got)
  /\ \A b, c \in some : b.msg = c.msg => b = c

(* What some of such batches hold is finite.                               *)
LEMMA HeldFinite ==
  ASSUME NEW some, Apart(some), NEW part \in SUBSET some
  PROVE  Apart(part) /\ IsFiniteSet(Held(part)) /\ Bytes(part) \in Nat
<1>1. IsFiniteSet(part) /\ Apart(part)
  <2>1. IsFiniteSet(part)
    BY FS_Subset DEF Apart
  <2>2. QED
    BY <2>1 DEF Apart
<1> DEFINE parts == {{b.msg} \X b.got : b \in part}
           f == [b \in part |-> {b.msg} \X b.got]
<1>2. IsFiniteSet(parts)
  <2>1. f \in Surjection(part, parts)
    BY DEF Surjection
  <2>2. QED
    BY <1>1, <2>1, FS_Surjection
<1>3. \A p \in parts : IsFiniteSet(p)
  <2>1. ASSUME NEW b \in part PROVE IsFiniteSet({b.msg} \X b.got)
    <3>1. IsFiniteSet({b.msg}) /\ IsFiniteSet(b.got)
      BY <1>1, FS_Singleton DEF Apart
    <3>2. QED
      BY <3>1, FS_Product
  <2>2. QED
    BY <2>1
<1> HIDE DEF parts
<1>4. IsFiniteSet(UNION parts)
  BY <1>2, <1>3, FS_UNION
<1>5. QED
  BY <1>1, <1>4, FS_CardinalityType DEF Held, Bytes, parts

(* The bytes of some batches and those of the others add up.               *)
LEMMA BytesSplit ==
  ASSUME NEW some, Apart(some), NEW part \in SUBSET some
  PROVE  Bytes(some \ part) = Bytes(some) - Bytes(part)
<1>1. Held(some \ part) \cup Held(part) = Held(some)
  BY DEF Held
<1>2. Held(some \ part) \cap Held(part) = {}
  <2>1. ASSUME NEW x \in Held(some \ part), x \in Held(part) PROVE FALSE
    <3>1. PICK b \in some \ part : x \in {b.msg} \X b.got
      BY DEF Held
    <3>2. PICK c \in part : x \in {c.msg} \X c.got
      BY <2>1 DEF Held
    <3>3. b.msg = c.msg
      BY <3>1, <3>2
    <3>4. QED
      BY <3>1, <3>2, <3>3 DEF Apart
  <2>2. QED
    BY <2>1
<1>3. /\ IsFiniteSet(Held(some \ part)) /\ IsFiniteSet(Held(part))
      /\ Bytes(some \ part) \in Nat /\ Bytes(part) \in Nat
  BY HeldFinite
<1>4. Cardinality(Held(some))
        = Cardinality(Held(some \ part)) + Cardinality(Held(part)) - Cardinality({})
  BY <1>1, <1>2, <1>3, FS_Union
<1>5. Cardinality({}) = 0
  BY FS_EmptySet
<1>6. QED
  BY <1>3, <1>4, <1>5 DEF Bytes

(* No two batches of a sequence are of one message.                        *)
Distinct(bs) == \A j, k \in DOMAIN bs : bs[j].msg = bs[k].msg => j = k

(* A sequence as a function, and the finite set of what is in it.          *)
LEMMA SequenceIs ==
  ASSUME NEW X, NEW bs \in Seq(X)
  PROVE  /\ Len(bs) \in Nat /\ DOMAIN bs = 1 .. Len(bs) /\ bs \in [1 .. Len(bs) -> X]
         /\ Range(bs) = {bs[i] : i \in 1 .. Len(bs)} /\ Range(bs) \subseteq X
         /\ IsFiniteSet(Range(bs))
<1>1. bs \in [1 .. Len(bs) -> X] /\ Len(bs) \in Nat /\ DOMAIN bs = 1 .. Len(bs)
  OBVIOUS
<1>2. Range(bs) = {bs[i] : i \in 1 .. Len(bs)} /\ Range(bs) \subseteq X
  BY <1>1 DEF Range
<1>3. bs \in Surjection(1 .. Len(bs), Range(bs))
  BY <1>1 DEF Range, Surjection
<1>4. IsFiniteSet(1 .. Len(bs))
  BY <1>1, FS_Interval
<1>5. QED
  BY <1>1, <1>2, <1>3, <1>4, FS_Surjection

(* What is in a sequence without two batches of one message.               *)
LEMMA ApartIs ==
  ASSUME NEW X, NEW bs \in Seq(X), Distinct(bs), \A b \in Range(bs) : IsFiniteSet(b.got)
  PROVE  Apart(Range(bs))
<1>1. Range(bs) = {bs[i] : i \in 1 .. Len(bs)} /\ DOMAIN bs = 1 .. Len(bs) /\ IsFiniteSet(Range(bs))
  BY SequenceIs
<1>2. QED
  BY <1>1 DEF Apart, Distinct

(* When the oldest go, the others stay, in a sequence just as good.        *)
LEMMA NewerIs ==
  ASSUME NEW X, NEW bs \in Seq(X), Distinct(bs), NEW k \in 0 .. Len(bs)
  PROVE  /\ Newer(bs, k) \in Seq(X) /\ Len(Newer(bs, k)) = Len(bs) - k
         /\ Distinct(Newer(bs, k)) /\ Range(Newer(bs, k)) = Range(bs) \ Oldest(bs, k)
         /\ Oldest(bs, k) \subseteq Range(bs)
<1> DEFINE n == Len(bs)
           s == Newer(bs, k)
<1>1. n \in Nat /\ k \in Nat /\ k <= n /\ k + 1 \in Int /\ \A i \in k + 1 .. n : bs[i] \in X
  BY ElementOfSeq
<1>2. /\ SubSeq(bs, k + 1, n) \in Seq(X)
      /\ Len(SubSeq(bs, k + 1, n)) = IF k + 1 <= n THEN n - (k + 1) + 1 ELSE 0
      /\ \A i \in 1 .. n - (k + 1) + 1 : SubSeq(bs, k + 1, n)[i] = bs[(k + 1) + i - 1]
  <2> HIDE DEF n
  <2>1. QED
    BY <1>1, SubSeqProperties
<1>3. s = SubSeq(bs, k + 1, n)
  BY DEF Newer
<1>4. DOMAIN bs = 1 .. n /\ Range(bs) = {bs[i] : i \in 1 .. n}
  BY SequenceIs
<1> HIDE DEF n, s
<1>5. s \in Seq(X) /\ Len(s) = n - k /\ \A i \in 1 .. n - k : s[i] = bs[k + i]
  BY <1>1, <1>2, <1>3
<1>6. DOMAIN s = 1 .. n - k /\ Range(s) = {s[i] : i \in 1 .. n - k}
  BY <1>5, SequenceIs
<1>7. \A i \in 1 .. n - k : k + i \in 1 .. n /\ k + i \notin 1 .. k
  BY <1>1
<1>8. Distinct(s)
  <2>1. ASSUME NEW i \in 1 .. n - k, NEW j \in 1 .. n - k, s[i].msg = s[j].msg PROVE i = j
    <3> DEFINE a == k + i
               b == k + j
    <3>0. a \in 1 .. n /\ b \in 1 .. n /\ s[i] = bs[a] /\ s[j] = bs[b]
      BY <1>5, <1>7
    <3> HIDE DEF a, b
    <3>2. a = b
      BY <2>1, <3>0, <1>4 DEF Distinct
    <3>1. k + i = k + j
      BY <3>2 DEF a, b
    <3>3. QED
      BY <3>1, <1>1
  <2>2. QED
    BY <2>1, <1>6 DEF Distinct
<1>9. Range(s) = Range(bs) \ Oldest(bs, k)
  <2>1. ASSUME NEW i \in 1 .. n - k PROVE s[i] \in Range(bs) \ Oldest(bs, k)
    <3>1. s[i] = bs[k + i] /\ k + i \in 1 .. n /\ k + i \notin 1 .. k
      BY <1>5, <1>7
    <3>2. \A j \in 1 .. k : bs[j] # bs[k + i]
      BY <3>1, <1>1, <1>4 DEF Distinct
    <3>3. QED
      BY <3>1, <3>2, <1>4 DEF Oldest
  <2>2. ASSUME NEW j \in 1 .. n, bs[j] \notin Oldest(bs, k) PROVE bs[j] \in Range(s)
    <3>1. j \notin 1 .. k
      BY <2>2 DEF Oldest
    <3>2. j - k \in 1 .. n - k /\ k + (j - k) = j
      BY <3>1, <1>1
    <3> DEFINE i == j - k
    <3> HIDE DEF i
    <3>3. i \in 1 .. n - k /\ k + i = j
      BY <3>2 DEF i
    <3>4. s[i] = bs[j]
      BY <3>3, <1>5
    <3>5. QED
      BY <3>3, <3>4, <1>6
  <2>3. QED
    BY <2>1, <2>2, <1>4, <1>6
<1>10. Oldest(bs, k) \subseteq Range(bs)
  BY <1>1, <1>4 DEF Oldest
<1>11. QED
  BY <1>5, <1>8, <1>9, <1>10 DEF n, s

(* When the batch of a message goes, the others stay.                      *)
LEMMA WithoutIs ==
  ASSUME NEW X, NEW bs \in Seq(X), Distinct(bs), NEW m
  PROVE  /\ Without(bs, m) \in Seq(X) /\ Len(Without(bs, m)) <= Len(bs)
         /\ Distinct(Without(bs, m)) /\ Range(Without(bs, m)) = Range(bs) \ Of(bs, m)
<1> DEFINE n == Len(bs)
           j == Place(bs, m)
           s == RemoveAt(bs, j)
<1>1. n \in Nat /\ DOMAIN bs = 1 .. n /\ Range(bs) = {bs[i] : i \in 1 .. n} /\ \A i \in 1 .. n : bs[i] \in X
  BY SequenceIs, ElementOfSeq
<1>2. CASE Of(bs, m) = {}
  BY <1>1, <1>2 DEF Without
<1>3. CASE Of(bs, m) # {}
  <2>1. j \in 1 .. n /\ bs[j].msg = m
    BY <1>1, <1>3 DEF Of, Place
  <2>2. Of(bs, m) = {bs[j]}
    BY <1>1, <2>1 DEF Of, Distinct
  <2>3. s = SubSeq(bs, 1, j - 1) \o SubSeq(bs, j + 1, n)
    BY DEF RemoveAt
  <2>4. Without(bs, m) = s
    BY <1>3 DEF Without
  <2> HIDE DEF n, j, s
  <2> DEFINE x == SubSeq(bs, 1, j - 1)
             y == SubSeq(bs, j + 1, n)
  <2>5. x \in Seq(X) /\ Len(x) = j - 1 /\ \A i \in 1 .. j - 1 : x[i] = bs[i]
    <3>1. /\ j \in Nat /\ 1 \in Int /\ j - 1 \in Int /\ \A i \in 1 .. j - 1 : bs[i] \in X
      BY <1>1, <2>1
    <3>2. /\ x \in Seq(X) /\ Len(x) = IF 1 <= j - 1 THEN j - 1 - 1 + 1 ELSE 0
          /\ \A i \in 1 .. j - 1 - 1 + 1 : x[i] = bs[1 + i - 1]
      BY <3>1, SubSeqProperties
    <3>3. QED
      BY <3>2, <1>1, <2>1
  <2>6. y \in Seq(X) /\ Len(y) = n - j /\ \A i \in 1 .. n - j : y[i] = bs[j + i]
    <3>1. /\ j + 1 \in Int /\ n \in Int /\ \A i \in j + 1 .. n : bs[i] \in X
      BY <1>1, <2>1
    <3>2. /\ y \in Seq(X) /\ Len(y) = IF j + 1 <= n THEN n - (j + 1) + 1 ELSE 0
          /\ \A i \in 1 .. n - (j + 1) + 1 : y[i] = bs[(j + 1) + i - 1]
      BY <3>1, SubSeqProperties
    <3>3. QED
      BY <3>2, <1>1, <2>1
  <2>7. s = x \o y
    BY <2>3
  <2> HIDE DEF x, y
  <2>8. /\ s \in Seq(X) /\ Len(s) = n - 1
        /\ \A i \in 1 .. n - 1 : s[i] = IF i <= j - 1 THEN x[i] ELSE y[i - (j - 1)]
    <3>0. x \o y \in Seq(X) /\ Len(x \o y) = Len(x) + Len(y)
      BY <2>5, <2>6, ConcatProperties
    <3>1. s \in Seq(X) /\ Len(s) = (j - 1) + (n - j)
      BY <3>0, <2>5, <2>6, <2>7
    <3>2. (j - 1) + (n - j) = n - 1
      BY <1>1, <2>1
    <3>3. \A i \in 1 .. (j - 1) + (n - j) : (x \o y)[i] = IF i <= j - 1 THEN x[i] ELSE y[i - (j - 1)]
      BY <2>5, <2>6, ConcatProperties
    <3>4. QED
      BY <2>7, <3>1, <3>2, <3>3
  <2>9. \A i \in 1 .. n - 1 :
          /\ i <= j - 1 => s[i] = bs[i] /\ i \in 1 .. n /\ i # j
          /\ ~ (i <= j - 1) => s[i] = bs[i + 1] /\ i + 1 \in 1 .. n /\ i + 1 # j
    <3>1. ASSUME NEW i \in 1 .. n - 1, i <= j - 1 PROVE s[i] = bs[i] /\ i \in 1 .. n /\ i # j
      <4>1. i \in 1 .. j - 1 /\ i \in 1 .. n /\ i # j
        BY <3>1, <1>1, <2>1
      <4>2. QED
        BY <4>1, <3>1, <2>5, <2>8
    <3>2. ASSUME NEW i \in 1 .. n - 1, ~ (i <= j - 1)
          PROVE  s[i] = bs[i + 1] /\ i + 1 \in 1 .. n /\ i + 1 # j
      <4>1. i - (j - 1) \in 1 .. n - j /\ j + (i - (j - 1)) = i + 1 /\ i + 1 \in 1 .. n /\ i + 1 # j
        BY <3>2, <1>1, <2>1
      <4>2. s[i] = y[i - (j - 1)]
        BY <3>2, <2>8
      <4>3. y[i - (j - 1)] = bs[j + (i - (j - 1))]
        BY <4>1, <2>6
      <4>4. QED
        BY <4>1, <4>2, <4>3
    <3>3. QED
      BY <3>1, <3>2
  <2>10. DOMAIN s = 1 .. n - 1 /\ Range(s) = {s[i] : i \in 1 .. n - 1}
    BY <2>8, SequenceIs
  <2>11. Distinct(s)
    <3>1. ASSUME NEW i \in 1 .. n - 1, NEW l \in 1 .. n - 1, s[i].msg = s[l].msg PROVE i = l
      <4>1. CASE i <= j - 1 /\ l <= j - 1
        BY <4>1, <3>1, <2>9, <1>1 DEF Distinct
      <4>2. CASE ~ (i <= j - 1) /\ ~ (l <= j - 1)
        <5>1. i + 1 = l + 1
          BY <4>2, <3>1, <2>9, <1>1 DEF Distinct
        <5>2. QED
          BY <5>1
      <4>3. CASE i <= j - 1 /\ ~ (l <= j - 1)
        <5>1. i = l + 1
          BY <4>3, <3>1, <2>9, <1>1 DEF Distinct
        <5>2. QED
          BY <5>1, <4>3, <2>1, <1>1
      <4>4. CASE ~ (i <= j - 1) /\ l <= j - 1
        <5>1. l = i + 1
          BY <4>4, <3>1, <2>9, <1>1 DEF Distinct
        <5>2. QED
          BY <5>1, <4>4, <2>1, <1>1
      <4>5. QED
        BY <4>1, <4>2, <4>3, <4>4
    <3>2. QED
      BY <3>1, <2>10 DEF Distinct
  <2>12. Range(s) = Range(bs) \ {bs[j]}
    <3>1. ASSUME NEW i \in 1 .. n - 1 PROVE s[i] \in Range(bs) \ {bs[j]}
      <4>1. \E l \in 1 .. n : s[i] = bs[l] /\ l # j
        BY <2>9
      <4>2. QED
        BY <4>1, <1>1, <2>1 DEF Distinct
    <3>2. ASSUME NEW l \in 1 .. n, l # j PROVE bs[l] \in Range(s)
      <4>1. CASE l < j
        <5>1. l \in 1 .. n - 1 /\ l <= j - 1
          BY <4>1, <1>1, <2>1
        <5>2. QED
          BY <5>1, <2>9, <2>10
      <4>2. CASE l > j
        <5> DEFINE i == l - 1
        <5>1. i \in 1 .. n - 1 /\ ~ (i <= j - 1) /\ i + 1 = l
          BY <4>2, <1>1, <2>1
        <5> HIDE DEF i
        <5>2. s[i] = bs[l]
          BY <5>1, <2>9
        <5>3. QED
          BY <5>1, <5>2, <2>10
      <4>3. QED
        BY <3>2, <4>1, <4>2, <1>1, <2>1
    <3>3. QED
      BY <3>1, <3>2, <1>1, <2>10
  <2>13. n - 1 <= n
    BY <1>1
  <2>14. QED
    BY <2>2, <2>4, <2>8, <2>11, <2>12, <2>13 DEF n
<1>4. QED
  BY <1>2, <1>3

(* More batches hold no less.                                              *)
LEMMA BytesGrow ==
  ASSUME NEW some, Apart(some), NEW part \in SUBSET some
  PROVE  Bytes(part) <= Bytes(some)
<1>1. Held(part) \in SUBSET Held(some)
  BY DEF Held
<1>2. IsFiniteSet(Held(some))
  BY HeldFinite
<1>3. QED
  BY <1>1, <1>2, FS_Subset DEF Bytes

(* The eviction loop ends with its limit kept, whatever was exceeded: at   *)
(* worst nothing is left, and then nothing is held.                        *)
LEMMA EvictionsAre ==
  ASSUME LimitAssumption, NEW X, NEW bs \in Seq(X), Distinct(bs),
         \A b \in Range(bs) : IsFiniteSet(b.got),
         NEW total, total = Bytes(Range(bs))
  PROVE  /\ Evictions(bs, total) \in 0 .. Len(bs)
         /\ Released(total, Oldest(bs, Evictions(bs, total))) \in Nat
         /\ Released(total, Oldest(bs, Evictions(bs, total))) <= MaxBytes
<1> DEFINE n == Len(bs)
           E == Exceeding(bs, total)
           c == Evictions(bs, total)
<1>1. n \in Nat /\ Range(bs) = {bs[i] : i \in 1 .. n} /\ MaxBytes \in Nat
  BY SequenceIs DEF LimitAssumption
<1>2. Apart(Range(bs))
  BY ApartIs
<1> HIDE DEF n
<1>3. ASSUME NEW l \in 0 .. n
      PROVE  /\ Oldest(bs, l) \in SUBSET Range(bs)
             /\ Released(total, Oldest(bs, l)) \in Nat
  <2>1. Oldest(bs, l) \in SUBSET Range(bs)
    BY <1>1 DEF Oldest
  <2>2. Bytes(Oldest(bs, l)) \in Nat /\ Bytes(Range(bs)) \in Nat /\ Bytes(Oldest(bs, l)) <= Bytes(Range(bs))
    BY <1>2, <2>1, HeldFinite, BytesGrow
  <2>3. QED
    BY <2>1, <2>2 DEF Released
<1>4. ASSUME NEW l \in 0 .. n, NEW i \in 0 .. l
      PROVE  Released(total, Oldest(bs, l)) <= Released(total, Oldest(bs, i))
  <2>1. i \in 0 .. n
    BY <1>1
  <2>2. Oldest(bs, i) \in SUBSET Oldest(bs, l)
    BY <1>1 DEF Oldest
  <2>3. Apart(Oldest(bs, l)) /\ Bytes(Oldest(bs, l)) \in Nat /\ Bytes(Range(bs)) \in Nat
    BY <1>2, <1>3, HeldFinite
  <2>4. Bytes(Oldest(bs, i)) \in Nat /\ Bytes(Oldest(bs, i)) <= Bytes(Oldest(bs, l))
    BY <2>2, <2>3, HeldFinite, BytesGrow
  <2>5. QED
    BY <2>3, <2>4 DEF Released
<1>5. E = {l \in 0 .. n - 1 : Released(total, Oldest(bs, l)) > MaxBytes} /\ c = Cardinality(E)
  BY DEF Exceeding, Evictions, n
<1> HIDE DEF E, c
<1>6. IsFiniteSet(0 .. n - 1) /\ Cardinality(0 .. n - 1) = n
  <2>1. 0 \in Int /\ n - 1 \in Int /\ (0 <= n - 1 => n - 1 - 0 + 1 = n) /\ (~ (0 <= n - 1) => n = 0)
    BY <1>1
  <2>2. IsFiniteSet(0 .. n - 1) /\ Cardinality(0 .. n - 1) = IF 0 > n - 1 THEN 0 ELSE n - 1 - 0 + 1
    BY <2>1, FS_Interval
  <2>3. QED
    BY <2>2, <1>1
<1>7. E \in SUBSET (0 .. n - 1)
  BY <1>5
<1>8. IsFiniteSet(E) /\ c \in Nat /\ c <= n
  BY <1>5, <1>6, <1>7, FS_Subset, FS_CardinalityType
<1>9. ASSUME NEW l \in E PROVE l < c
  <2>1. l \in 0 .. n - 1 /\ l \in 0 .. n /\ Released(total, Oldest(bs, l)) > MaxBytes
    BY <1>1, <1>5
  <2>2. ASSUME NEW i \in 0 .. l PROVE i \in E
    <3>1. i \in 0 .. n - 1 /\ i \in 0 .. n
      BY <2>1, <1>1
    <3>2. Released(total, Oldest(bs, l)) <= Released(total, Oldest(bs, i))
      BY <2>1, <1>4
    <3>3. Released(total, Oldest(bs, i)) \in Nat /\ Released(total, Oldest(bs, l)) \in Nat
      BY <2>1, <3>1, <1>3
    <3>4. QED
      BY <3>1, <3>2, <3>3, <2>1, <1>1, <1>5
  <2>3. 0 .. l \in SUBSET E
    BY <2>2
  <2>4. Cardinality(0 .. l) <= c
    BY <2>3, <1>5, <1>8, FS_Subset
  <2>5. Cardinality(0 .. l) = l + 1
    <3>1. 0 \in Int /\ l \in Int /\ ~ (0 > l)
      BY <2>1, <1>1
    <3>2. Cardinality(0 .. l) = IF 0 > l THEN 0 ELSE l - 0 + 1
      BY <3>1, FS_Interval
    <3>3. QED
      BY <3>1, <3>2
  <2>6. QED
    BY <2>1, <2>4, <2>5, <1>8
<1>10. c \notin E /\ c \in 0 .. n
  BY <1>1, <1>8, <1>9
<1>11. Released(total, Oldest(bs, c)) \in Nat
  BY <1>3, <1>10
<1>12. Released(total, Oldest(bs, c)) <= MaxBytes
  <2>1. CASE c \in 0 .. n - 1
    BY <2>1, <1>1, <1>5, <1>10, <1>11
  <2>2. CASE c = n
    <3>1. Oldest(bs, c) = Range(bs)
      BY <2>2, <1>1 DEF Oldest
    <3>2. Bytes(Range(bs)) \in Nat
      BY <1>2, HeldFinite
    <3>3. QED
      BY <3>1, <3>2, <1>1 DEF Released
  <2>3. QED
    BY <2>1, <2>2, <1>1, <1>10
<1>13. QED
  BY <1>10, <1>11, <1>12 DEF c, n

(* A batch of a new message at the end.                                    *)
LEMMA AppendedIs ==
  ASSUME NEW bs \in Seq(Batches), Distinct(bs), NEW b \in Batches, b.msg \notin MsgsOf(Range(bs))
  PROVE  /\ Append(bs, b) \in Seq(Batches) /\ Len(Append(bs, b)) = Len(bs) + 1
         /\ Distinct(Append(bs, b)) /\ Range(Append(bs, b)) = Range(bs) \cup {b}
<1> DEFINE n == Len(bs)
           s == Append(bs, b)
<1>1. n \in Nat /\ DOMAIN bs = 1 .. n /\ Range(bs) = {bs[i] : i \in 1 .. n}
  BY SequenceIs
<1>2. s \in Seq(Batches) /\ Len(s) = n + 1 /\ (\A i \in 1 .. n : s[i] = bs[i]) /\ s[n + 1] = b
  BY AppendProperties
<1> HIDE DEF n, s
<1>3. DOMAIN s = 1 .. n + 1 /\ Range(s) = {s[i] : i \in 1 .. n + 1}
  BY <1>2, SequenceIs
<1>4. \A i \in 1 .. n + 1 : i \in 1 .. n \/ i = n + 1
  BY <1>1
<1>5. 1 .. n \subseteq 1 .. n + 1 /\ n + 1 \in 1 .. n + 1 /\ n + 1 \notin 1 .. n
  BY <1>1
<1>6. \A i \in 1 .. n : bs[i].msg # b.msg
  BY <1>1 DEF MsgsOf
<1>7. Distinct(s)
  <2>1. ASSUME NEW i \in 1 .. n + 1, NEW j \in 1 .. n + 1, s[i].msg = s[j].msg PROVE i = j
    <3>1. CASE i \in 1 .. n /\ j \in 1 .. n
      BY <3>1, <2>1, <1>1, <1>2 DEF Distinct
    <3>2. CASE i = n + 1 \/ j = n + 1
      BY <3>2, <2>1, <1>2, <1>4, <1>6
    <3>3. QED
      BY <3>1, <3>2, <1>4
  <2>2. QED
    BY <2>1, <1>3 DEF Distinct
<1>8. Range(s) = Range(bs) \cup {b}
  BY <1>1, <1>2, <1>3, <1>4, <1>5
<1>9. QED
  BY <1>2, <1>7, <1>8 DEF n, s

(* The one place of a message's batch.                                     *)
LEMMA PlaceIs ==
  ASSUME NEW X, NEW bs \in Seq(X), Distinct(bs), NEW m, Of(bs, m) # {}
  PROVE  /\ Place(bs, m) \in 1 .. Len(bs) /\ bs[Place(bs, m)].msg = m
         /\ bs[Place(bs, m)] \in Range(bs) /\ Of(bs, m) = {bs[Place(bs, m)]}
<1>1. DOMAIN bs = 1 .. Len(bs) /\ Range(bs) = {bs[i] : i \in 1 .. Len(bs)}
  BY SequenceIs
<1>2. Place(bs, m) \in 1 .. Len(bs) /\ bs[Place(bs, m)].msg = m
  BY <1>1 DEF Of, Place
<1>3. QED
  BY <1>1, <1>2 DEF Of, Distinct

(* A sequence with another batch at one place.                             *)
Replaced(bs, j, c) == [bs EXCEPT ![j] = c]

(* A batch in place of one of the same message.                            *)
LEMMA ReplacedIs ==
  ASSUME NEW bs \in Seq(Batches), Distinct(bs), NEW j \in 1 .. Len(bs),
         NEW c \in Batches, c.msg = bs[j].msg
  PROVE  /\ Replaced(bs, j, c) \in Seq(Batches) /\ Len(Replaced(bs, j, c)) = Len(bs)
         /\ Distinct(Replaced(bs, j, c))
         /\ Range(Replaced(bs, j, c)) = (Range(bs) \ {bs[j]}) \cup {c}
<1> DEFINE n == Len(bs)
           new == Replaced(bs, j, c)
<1>1. n \in Nat /\ DOMAIN bs = 1 .. n /\ Range(bs) = {bs[l] : l \in 1 .. n} /\ bs \in [1 .. n -> Batches]
  BY SequenceIs
<1>2. new \in [1 .. n -> Batches] /\ new[j] = c /\ \A l \in 1 .. n : l # j => new[l] = bs[l]
  BY <1>1 DEF Replaced
<1> HIDE DEF n, new
<1>3. new \in Seq(Batches) /\ Len(new) = n /\ DOMAIN new = 1 .. n
  BY <1>1, <1>2, IsASeq, LenProperties
<1>4. Range(new) = {new[l] : l \in 1 .. n}
  <2>1. Range(new) = {new[l] : l \in 1 .. Len(new)}
    BY <1>3, SequenceIs
  <2>2. QED
    BY <2>1, <1>3
<1>5. j \in 1 .. n
  BY DEF n
<1>6. \A l \in 1 .. n : new[l].msg = bs[l].msg
  BY <1>2
<1>7. Distinct(new)
  BY <1>1, <1>3, <1>6 DEF Distinct
<1>8. Range(new) = (Range(bs) \ {bs[j]}) \cup {c}
  <2>1. \A l \in 1 .. n : bs[l] = bs[j] => l = j
    BY <1>1, <1>5 DEF Distinct
  <2>2. QED
    BY <2>1, <1>1, <1>2, <1>4, <1>5
<1>9. QED
  BY <1>3, <1>7, <1>8 DEF new, n

(* A fragment more is a byte more.                                         *)
LEMMA BytesAdded ==
  ASSUME NEW some, Apart(some), NEW b \in some, NEW c, NEW i,
         c.msg = b.msg, c.got = b.got \cup {i}, i \notin b.got
  PROVE  Bytes((some \ {b}) \cup {c}) = Bytes(some) + 1
<1> DEFINE new == (some \ {b}) \cup {c}
<1>1. Held(new) = Held(some) \cup {<<b.msg, i>>}
  <2>1. \A x : x \in Held(new) <=> \E d \in new : x \in {d.msg} \X d.got
    BY DEF Held
  <2>2. \A x : x \in Held(some) <=> \E d \in some : x \in {d.msg} \X d.got
    BY DEF Held
  <2>3. {c.msg} \X c.got = ({b.msg} \X b.got) \cup {<<b.msg, i>>}
    OBVIOUS
  <2>4. \A x : x \in Held(new) <=> x \in Held(some) \cup {<<b.msg, i>>}
    BY <2>1, <2>2, <2>3
  <2>5. QED
    BY <2>4
<1>2. <<b.msg, i>> \notin Held(some)
  BY DEF Held, Apart
<1>3. IsFiniteSet(Held(some)) /\ Bytes(some) \in Nat
  BY HeldFinite
<1>4. QED
  BY <1>1, <1>2, <1>3, FS_AddElement DEF Bytes

(* The parts of the inductive invariant. The first is the types of the     *)
(* state; how often a message is handed on is bounded by the ledger, not   *)
(* by its type.                                                            *)
TypeInv ==
  /\ sent \subseteq Msgs /\ dropped \subseteq Msgs /\ early \subseteq Msgs
  /\ arrived \in [AllPayloads -> 0 .. Copies]
  /\ batches \in Seq(Batches) /\ totalBytes \in Nat /\ disposed \in BOOLEAN
  /\ timers \subseteq Msgs \X (1 .. Copies)
  /\ complete \in [Msgs -> Nat]

(* A batch in flight: its timer is of its message, its fragments are of    *)
(* its message and not all there yet, since a whole batch is handed on at  *)
(* once.                                                                   *)
InFlight(b) ==
  /\ b.timer[1] = b.msg /\ b.got \subseteq 1 .. Count[b.msg] /\ b.got # 1 .. Count[b.msg]

(* The batches in flight: their limits, their timers, and what they are.   *)
Flight ==
  /\ Distinct(batches) /\ Len(batches) <= MaxBatches
  /\ totalBytes = Bytes(Range(batches)) /\ totalBytes <= MaxBytes
  /\ timers = {b.timer : b \in Range(batches)}
  /\ \A b \in Range(batches) : InFlight(b)

(* What was handed on, and what is in flight on top of it, arrived as      *)
(* often.                                                                  *)
Ledger ==
  /\ \A m \in Msgs : \A p \in Payloads(m) : complete[m] <= arrived[p]
  /\ \A b \in Range(batches) :
       /\ complete[b.msg] < arrived[Header(b.msg)]
       /\ \A i \in b.got : complete[b.msg] < arrived[<<b.msg, i>>]

(* A message of which nothing arrived yet, or with a batch that has all    *)
(* that arrived of it.                                                     *)
OnItsWay(m) ==
  \/ arrived[Header(m)] = 0 /\ \A i \in 1 .. Count[m] : arrived[<<m, i>>] = 0
  \/ \E b \in Of(batches, m) : \A i \in 1 .. Count[m] : arrived[<<m, i>>] > 0 => i \in b.got

(* Nothing is lost without a reason: a message is on its way until it is   *)
(* handed on, unless its batch was given up or came too late.              *)
Progress ==
  \A m \in Msgs \ (dropped \cup early) : disposed \/ complete[m] > 0 \/ OnItsWay(m)

(* How many fragments of a message there are, and when they are all        *)
(* there.                                                                  *)
LEMMA CountIs ==
  ASSUME CountAssumption, NEW m \in Msgs
  PROVE  /\ Count[m] \in Nat /\ Count[m] > 0
         /\ IsFiniteSet(1 .. Count[m]) /\ Cardinality(1 .. Count[m]) = Count[m]
         /\ \A s \in SUBSET (1 .. Count[m]) :
              IsFiniteSet(s) /\ (Cardinality(s) = Count[m] <=> s = 1 .. Count[m])
<1>1. Count[m] \in Nat /\ Count[m] > 0
  BY DEF CountAssumption
<1> DEFINE n == Count[m]
<1> HIDE DEF n
<1>0. n \in Nat /\ n > 0 /\ n = Count[m]
  BY <1>1 DEF n
<1>2. IsFiniteSet(1 .. Count[m]) /\ Cardinality(1 .. Count[m]) = Count[m]
  <2>1. IsFiniteSet(1 .. n) /\ Cardinality(1 .. n) = n
    <3>1. 1 \in Int /\ n \in Int /\ ~ (1 > n) /\ n - 1 + 1 = n
      BY <1>0
    <3>2. IsFiniteSet(1 .. n) /\ Cardinality(1 .. n) = IF 1 > n THEN 0 ELSE n - 1 + 1
      BY <3>1, FS_Interval
    <3>3. QED
      BY <3>1, <3>2
  <2>2. QED
    BY <2>1, <1>0
<1>3. ASSUME NEW s \in SUBSET (1 .. Count[m])
      PROVE  IsFiniteSet(s) /\ (Cardinality(s) = Count[m] <=> s = 1 .. Count[m])
  BY <1>2, FS_Subset
<1>4. QED
  BY <1>1, <1>2, <1>3

(* The batches in flight are finitely many and finite, one of a message.   *)
LEMMA FlightApart ==
  ASSUME CountAssumption, TypeInv, Flight
  PROVE  /\ Apart(Range(batches)) /\ Range(batches) \subseteq Batches
         /\ \A b \in Range(batches) : IsFiniteSet(b.got)
<1>1. Range(batches) \subseteq Batches
  BY SequenceIs DEF TypeInv
<1>2. \A b \in Range(batches) : IsFiniteSet(b.got)
  BY <1>1, CountIs DEF Flight, InFlight, Batches
<1>3. QED
  BY <1>1, <1>2, ApartIs DEF TypeInv, Flight

(* An arrival is counted once.                                             *)
LEMMA ArrivesIs ==
  ASSUME CountAssumption, LimitAssumption, TypeInv, NEW m \in Msgs, NEW p \in Payloads(m), Arrives(p)
  PROVE  /\ arrived' \in [AllPayloads -> 0 .. Copies] /\ arrived'[p] = arrived[p] + 1
         /\ p \in AllPayloads /\ arrived[p] \in Nat /\ arrived'[p] \in 1 .. Copies
         /\ \A q \in AllPayloads : q # p => arrived'[q] = arrived[q]
         /\ \A q \in AllPayloads : arrived[q] \in Nat /\ arrived'[q] \in Nat /\ arrived[q] <= arrived'[q]
<1>1. p \in AllPayloads
  BY DEF AllPayloads
<1>2. arrived[p] \in 0 .. Copies /\ arrived[p] < Copies /\ arrived' = [arrived EXCEPT ![p] = @ + 1]
  BY <1>1 DEF TypeInv, Arrives
<1>3. arrived[p] + 1 \in 1 .. Copies /\ arrived[p] \in Nat
  BY <1>2 DEF LimitAssumption
<1>4. /\ arrived' \in [AllPayloads -> 0 .. Copies] /\ arrived'[p] = arrived[p] + 1
      /\ \A q \in AllPayloads : q # p => arrived'[q] = arrived[q]
  BY <1>1, <1>2, <1>3 DEF TypeInv
<1>5. \A q \in AllPayloads : arrived[q] \in Nat /\ arrived'[q] \in Nat
  BY <1>4 DEF TypeInv
<1>6. QED
  BY <1>1, <1>3, <1>4, <1>5

(* What is left when some batches in flight go, and their timers and bytes *)
(* with them.                                                              *)
LEMMA GivenUp ==
  ASSUME CountAssumption, LimitAssumption, TypeInv, Flight, NEW part \in SUBSET Range(batches)
  PROVE  /\ Released(totalBytes, part) = Bytes(Range(batches) \ part)
         /\ Released(totalBytes, part) \in Nat /\ Released(totalBytes, part) <= MaxBytes
         /\ Cleared(part) = {b.timer : b \in Range(batches) \ part}
<1> DEFINE bats == Range(batches)
<1>1. Apart(bats) /\ bats \subseteq Batches
  BY FlightApart
<1>2. Bytes(bats \ part) = Bytes(bats) - Bytes(part) /\ Bytes(bats \ part) \in Nat /\ Bytes(bats) \in Nat
      /\ Bytes(bats \ part) <= Bytes(bats)
  <2>1. bats \ part \in SUBSET bats
    OBVIOUS
  <2>2. QED
    BY <1>1, <2>1, BytesSplit, HeldFinite, BytesGrow
<1>3. totalBytes = Bytes(bats) /\ totalBytes <= MaxBytes /\ MaxBytes \in Nat
  BY DEF Flight, LimitAssumption
<1>4. Cleared(part) = {b.timer : b \in bats \ part}
  <2>1. timers = {b.timer : b \in bats}
    BY DEF Flight
  <2>2. \A b, c \in bats : b.timer = c.timer => b = c
    BY <1>1 DEF Flight, InFlight, Apart
  <2>3. QED
    BY <2>1, <2>2 DEF Cleared
<1> HIDE DEF bats
<1>5. QED
  BY <1>2, <1>3, <1>4 DEF Released, bats

(* What the code's options are required to be.                             *)
Assumptions == CountAssumption /\ LimitAssumption

(* The inductive invariant.                                                *)
IInv == TypeInv /\ Flight /\ Ledger /\ Progress

(* A header with no batch yet opens one, with the oldest gone to make      *)
(* room.                                                                   *)
LEMMA HeaderOpens ==
  ASSUME Assumptions, IInv, NEW m \in Msgs, HandleFragmentHeader(m), ~ disposed, m \notin Keys
  PROVE  \E out \in SUBSET Range(batches) : \E n \in 1 .. Copies :
           /\ batches' \in Seq(Batches) /\ totalBytes' \in Nat
           /\ timers' \subseteq Msgs \X (1 .. Copies)
           /\ Range(batches') = (Range(batches) \ out) \cup {NewBatch(m, n)}
           /\ dropped' = dropped \cup MsgsOf(out)
           /\ Flight'
<1> DEFINE bats == Range(batches)
           k == IF Len(batches) >= MaxBatches THEN 1 ELSE 0
           out == Oldest(batches, k)
           n == arrived'[Header(m)]
           nb == NewBatch(m, n)
           left == Newer(batches, k)
<1>1. /\ CountAssumption /\ LimitAssumption /\ TypeInv /\ Flight
      /\ MaxBatches \in Nat /\ MaxBatches > 0 /\ MaxBytes \in Nat
      /\ batches \in Seq(Batches) /\ Distinct(batches) /\ Len(batches) \in Nat /\ Len(batches) <= MaxBatches
  BY DEF Assumptions, IInv, TypeInv, Flight, LimitAssumption
<1>2. k \in 0 .. Len(batches) /\ Len(batches) - k + 1 <= MaxBatches
  BY <1>1
<1>3. Arrives(Header(m)) /\ Header(m) \in Payloads(m) /\ Header(m) = <<m, 0>>
  BY DEF HandleFragmentHeader, Header, Payloads
<1>4. n \in 1 .. Copies
  BY <1>1, <1>3, ArrivesIs
<1>5. /\ batches' = Append(left, nb) /\ totalBytes' = Released(totalBytes, out)
      /\ timers' = Cleared(out) \cup {<<m, n>>}
      /\ dropped' = dropped \cup MsgsOf(out)
  BY DEF HandleFragmentHeader
<1> HIDE DEF k, n
<1>6. nb \in Batches /\ nb.msg = m /\ nb.got = {} /\ nb.timer = <<m, n>>
  BY <1>4 DEF NewBatch, Batches
<1>7. /\ left \in Seq(Batches) /\ Len(left) = Len(batches) - k /\ Distinct(left)
      /\ Range(left) = bats \ out /\ out \subseteq bats
  BY <1>1, <1>2, NewerIs
<1> HIDE DEF out, left, nb
<1>8. nb.msg \notin MsgsOf(Range(left))
  BY <1>6, <1>7 DEF Keys, MsgsOf
<1>9. /\ Append(left, nb) \in Seq(Batches) /\ Len(Append(left, nb)) = Len(left) + 1
      /\ Distinct(Append(left, nb)) /\ Range(Append(left, nb)) = Range(left) \cup {nb}
  BY <1>6, <1>7, <1>8, AppendedIs
<1>10. /\ Released(totalBytes, out) = Bytes(bats \ out) /\ Released(totalBytes, out) \in Nat
       /\ Released(totalBytes, out) <= MaxBytes /\ Cleared(out) = {b.timer : b \in bats \ out}
  BY <1>1, <1>7, GivenUp
<1>11. Range(batches') = (bats \ out) \cup {nb}
  BY <1>5, <1>7, <1>9
<1>12. Held(Range(batches')) = Held(bats \ out)
  BY <1>6, <1>11 DEF Held
<1>13. totalBytes' = Bytes(Range(batches')) /\ totalBytes' <= MaxBytes
  BY <1>5, <1>10, <1>12 DEF Bytes
<1>14. timers' = {b.timer : b \in Range(batches')}
  BY <1>5, <1>6, <1>10, <1>11
<1>15. Distinct(batches') /\ Len(batches') <= MaxBatches
  BY <1>1, <1>2, <1>5, <1>7, <1>9
<1>16. \A b \in Range(batches') : InFlight(b)
  <2>1. InFlight(nb)
    <3>1. 1 \in 1 .. Count[m]
      BY <1>1, CountIs
    <3>2. QED
      BY <3>1, <1>6 DEF InFlight
  <2>2. \A b \in bats : InFlight(b)
    BY <1>1 DEF Flight
  <2>3. QED
    BY <2>1, <2>2, <1>11
<1>17. Flight'
  <2>1. \A b \in Range(batches') : InFlight(b)'
    BY <1>16 DEF InFlight
  <2>2. QED
    BY <1>13, <1>14, <1>15, <1>16 DEF Flight
<1>18. timers' \subseteq Msgs \X (1 .. Copies)
  BY <1>1, <1>4, <1>5 DEF TypeInv, Cleared
<1>19. QED
  BY <1>4, <1>5, <1>7, <1>9, <1>10, <1>11, <1>17, <1>18 DEF nb

(* A fragment of a batch in flight is added to it; then some batches go    *)
(* to make memory, and this one with them when it is whole, handed on      *)
(* once.                                                                   *)
LEMMA DataAdds ==
  ASSUME Assumptions, IInv, NEW m \in Msgs, NEW i \in 1 .. Count[m], HandleFragmentData(m, i),
         ~ disposed, m \in Keys, ~ Duplicate(batches[Place(batches, m)], i)
  PROVE  \E b \in Range(batches), c \in Batches : \E out \in SUBSET ((Range(batches) \ {b}) \cup {c}), whole \in SUBSET {c} :
           /\ b.msg = m /\ i \notin b.got
           /\ c.msg = m /\ c.timer = b.timer /\ c.got = b.got \cup {i}
           /\ batches' \in Seq(Batches) /\ totalBytes' \in Nat
           /\ timers' \subseteq Msgs \X (1 .. Copies)
           /\ Range(batches') = (((Range(batches) \ {b}) \cup {c}) \ out) \ whole
           /\ dropped' = dropped \cup MsgsOf(out)
           /\ whole = {} => complete' = complete
           /\ whole # {} => c.got = 1 .. Count[m] /\ complete' = [complete EXCEPT ![m] = @ + 1]
           /\ Flight'
<1> DEFINE bats == Range(batches)
           j == Place(batches, m)
           b == batches[j]
           c == Grown(b, i)
           added == Replaced(batches, j, c)
           after == (bats \ {b}) \cup {c}
           k == Evictions(added, totalBytes + 1)
           out == Oldest(added, k)
           left == Newer(added, k)
           whole == {d \in Of(left, m) : Cardinality(d.got) = Count[m]}
           total == Released(totalBytes + 1, out)
<1>1. /\ CountAssumption /\ LimitAssumption /\ TypeInv /\ Flight
      /\ MaxBatches \in Nat /\ MaxBytes \in Nat /\ totalBytes \in Nat /\ i \in Nat
      /\ batches \in Seq(Batches) /\ Distinct(batches) /\ Len(batches) \in Nat /\ Len(batches) <= MaxBatches
  BY CountIs DEF Assumptions, IInv, TypeInv, Flight, LimitAssumption
<1>2. Of(batches, m) # {}
  BY DEF Keys, Of
<1>3. j \in 1 .. Len(batches) /\ b.msg = m /\ b \in bats /\ i \notin b.got
  BY <1>1, <1>2, PlaceIs DEF Duplicate
<1>4. /\ dropped' = dropped \cup MsgsOf(out)
      /\ batches' = IF whole = {} THEN left ELSE Without(left, m)
      /\ totalBytes' = Released(total, whole)
      /\ timers' = Cleared(out \cup whole)
      /\ complete' = IF whole = {} THEN complete ELSE [complete EXCEPT ![m] = @ + 1]
  BY DEF HandleFragmentData, Keys, Replaced
<1> HIDE DEF j
<1>5. /\ added \in Seq(Batches) /\ Len(added) = Len(batches) /\ Distinct(added) /\ Range(added) = after
      /\ c.msg = b.msg /\ c.timer = b.timer /\ c.got = b.got \cup {i}
  <2>1. b \in Batches
    BY <1>1, <1>3, SequenceIs
  <2>2. c \in Batches /\ c.msg = b.msg /\ c.timer = b.timer /\ c.got = b.got \cup {i}
    BY <2>1, <1>1 DEF Grown, Batches
  <2> HIDE DEF c
  <2>3. QED
    BY <1>1, <1>3, <2>2, ReplacedIs
<1> HIDE DEF b, c, added
<1>6. Apart(bats) /\ bats \subseteq Batches /\ \A d \in bats : IsFiniteSet(d.got)
  BY <1>1, FlightApart
<1>7. /\ IsFiniteSet(c.got) /\ c.got \subseteq 1 .. Count[m] /\ c.timer[1] = m
      /\ \A d \in bats : InFlight(d)
  <2>1. b.got \subseteq 1 .. Count[m] /\ b.timer[1] = m /\ \A d \in bats : InFlight(d)
    BY <1>1, <1>3 DEF Flight, InFlight
  <2>2. IsFiniteSet(b.got \cup {i})
    BY <1>3, <1>6, FS_AddElement
  <2>3. QED
    BY <2>1, <2>2, <1>5
<1>8. \A d \in after : IsFiniteSet(d.got)
  BY <1>6, <1>7
<1>9. Apart(after)
  BY <1>5, <1>8, ApartIs
<1>10. totalBytes + 1 = Bytes(after)
  <2>1. Bytes(after) = Bytes(bats) + 1
    BY <1>3, <1>5, <1>6, BytesAdded
  <2>2. QED
    BY <2>1, <1>1 DEF Flight
<1>11. /\ k \in 0 .. Len(added) /\ total \in Nat /\ total <= MaxBytes
  BY <1>1, <1>5, <1>8, <1>10, EvictionsAre
<1> HIDE DEF k
<1>12. /\ left \in Seq(Batches) /\ Len(left) = Len(added) - k /\ Distinct(left)
       /\ Range(left) = after \ out /\ out \subseteq after
  BY <1>5, <1>11, NewerIs
<1> HIDE DEF left, out
<1>13. c \in Batches /\ c \in after
  <2>1. after \subseteq Batches
    BY <1>5, SequenceIs
  <2>2. QED
    BY <2>1
<1>14. Of(left, m) \subseteq {c} /\ Of(left, m) \subseteq after \ out
  BY <1>3, <1>5, <1>9, <1>12, <1>13 DEF Of, Apart
<1>15. /\ whole \subseteq {c} /\ whole \subseteq after \ out
       /\ whole # {} => c.got = 1 .. Count[m] /\ Of(left, m) = whole
       /\ whole = {} => c.got # 1 .. Count[m] \/ c \in out
  <2>1. Cardinality(c.got) = Count[m] <=> c.got = 1 .. Count[m]
    BY <1>1, <1>7, CountIs
  <2>2. c \notin out => c \in Of(left, m)
    BY <1>3, <1>5, <1>12, <1>13 DEF Of
  <2>3. QED
    BY <2>1, <2>2, <1>14
<1> HIDE DEF whole
<1>16. /\ batches' \in Seq(Batches) /\ Len(batches') <= Len(left) /\ Distinct(batches')
       /\ Range(batches') = (after \ out) \ whole
  <2>1. CASE whole = {}
    BY <2>1, <1>4, <1>12, <1>11, <1>5, <1>1
  <2>2. CASE whole # {}
    <3>1. /\ Without(left, m) \in Seq(Batches) /\ Len(Without(left, m)) <= Len(left)
          /\ Distinct(Without(left, m)) /\ Range(Without(left, m)) = Range(left) \ Of(left, m)
      BY <1>12, WithoutIs
    <3>2. QED
      BY <3>1, <2>2, <1>4, <1>12, <1>15
  <2>3. QED
    BY <2>1, <2>2
<1>17. /\ totalBytes' = Bytes(Range(batches')) /\ totalBytes' \in Nat /\ totalBytes' <= MaxBytes
  <2>1. total = Bytes(after \ out)
    BY <1>9, <1>10, <1>12, BytesSplit DEF Released
  <2>2. after \ out \in SUBSET after /\ Apart(after \ out)
    BY <1>9, HeldFinite
  <2>3. Bytes((after \ out) \ whole) = Bytes(after \ out) - Bytes(whole)
    BY <2>2, <1>15, BytesSplit
  <2>4. /\ Bytes((after \ out) \ whole) \in Nat /\ Bytes((after \ out) \ whole) <= Bytes(after \ out)
        /\ Bytes(after \ out) \in Nat
    <3>1. (after \ out) \ whole \in SUBSET (after \ out)
      OBVIOUS
    <3>2. QED
      BY <3>1, <2>2, HeldFinite, BytesGrow
  <2>5. totalBytes' = total - Bytes(whole)
    BY <1>4 DEF Released
  <2> HIDE DEF total, after
  <2>6. QED
    BY <2>1, <2>3, <2>4, <2>5, <1>1, <1>11, <1>16
<1>18. timers' = {d.timer : d \in Range(batches')}
  <2>1. timers = {d.timer : d \in bats}
    BY <1>1 DEF Flight
  <2>2. timers = {d.timer : d \in after}
    BY <2>1, <1>3, <1>5
  <2>3. \A d \in after : d.timer[1] = d.msg
    BY <1>3, <1>5, <1>7 DEF InFlight
  <2>4. \A d, e \in after : d.timer = e.timer => d = e
    BY <2>3, <1>9 DEF Apart
  <2>5. timers' = timers \ {d.timer : d \in out \cup whole}
    BY <1>4 DEF Cleared
  <2>6. out \cup whole \subseteq after /\ Range(batches') = after \ (out \cup whole)
    BY <1>12, <1>15, <1>16
  <2> HIDE DEF after
  <2>7. QED
    BY <2>2, <2>4, <2>5, <2>6
<1>19. \A d \in Range(batches') : InFlight(d)
  <2>1. ASSUME NEW d \in Range(batches') PROVE InFlight(d)
    <3>1. d \in after /\ d \notin out /\ d \notin whole
      BY <1>16
    <3>2. CASE d = c
      <4>1. c.got # 1 .. Count[m]
        BY <3>1, <3>2, <1>15
      <4>2. QED
        BY <4>1, <3>2, <1>3, <1>5, <1>7 DEF InFlight
    <3>3. CASE d # c
      BY <3>1, <3>3, <1>7
    <3>4. QED
      BY <3>2, <3>3
  <2>2. QED
    BY <2>1
<1>20. Len(batches') <= MaxBatches
  BY <1>1, <1>5, <1>11, <1>12, <1>16
<1>21. Flight'
  BY <1>16, <1>17, <1>18, <1>19, <1>20 DEF Flight, InFlight
<1>22. timers' \subseteq Msgs \X (1 .. Copies)
  BY <1>1, <1>4 DEF TypeInv, Cleared
<1>23. QED
  <2>1. out \in SUBSET after /\ whole \in SUBSET {c}
    BY <1>12, <1>15
  <2>2. /\ whole = {} => complete' = complete
        /\ whole # {} => c.got = 1 .. Count[m] /\ complete' = [complete EXCEPT ![m] = @ + 1]
    BY <1>4, <1>15
  <2>3. c.msg = m
    BY <1>3, <1>5
  <2>4. QED
    BY <2>1, <2>2, <2>3, <1>3, <1>4, <1>5, <1>13, <1>16, <1>17, <1>21, <1>22

(* The payloads of a message.                                              *)
LEMMA PayloadsAre ==
  ASSUME NEW m \in Msgs
  PROVE  /\ Payloads(m) \subseteq AllPayloads /\ Header(m) \in Payloads(m) /\ Header(m)[1] = m
         /\ \A i \in 1 .. Count[m] : <<m, i>> \in Payloads(m) /\ <<m, i>> # Header(m)
         /\ \A p \in Payloads(m) : p[1] = m /\ (p = Header(m) \/ \E i \in 1 .. Count[m] : p = <<m, i>>)
BY DEF Payloads, AllPayloads, Header

(* At the start nothing is in flight and nothing arrived.                  *)
LEMMA InitInv == ASSUME Assumptions, Init PROVE IInv
<1>1. /\ MaxBatches \in Nat /\ MaxBytes \in Nat /\ Copies \in Nat
      /\ sent = {} /\ batches = <<>> /\ totalBytes = 0 /\ timers = {} /\ disposed = FALSE
      /\ dropped = {} /\ early = {}
      /\ arrived = [p \in AllPayloads |-> 0] /\ complete = [m \in Msgs |-> 0]
  BY DEF Assumptions, LimitAssumption, Init
<1>2. Range(batches) = {} /\ Len(batches) = 0 /\ batches \in Seq(Batches) /\ Distinct(batches)
  BY <1>1 DEF Range, Distinct
<1>3. TypeInv
  <2>1. arrived \in [AllPayloads -> 0 .. Copies] /\ complete \in [Msgs -> Nat]
    <3>1. 0 \in 0 .. Copies /\ 0 \in Nat
      BY <1>1
    <3>2. QED
      BY <3>1, <1>1
  <2>2. QED
    BY <2>1, <1>1, <1>2 DEF TypeInv
<1>4. Flight
  <2>1. Held({}) = {} /\ Cardinality({}) = 0
    BY FS_EmptySet DEF Held
  <2>2. Bytes(Range(batches)) = 0
    BY <2>1, <1>2 DEF Bytes
  <2>3. {b.timer : b \in Range(batches)} = {}
    BY <1>2
  <2>4. totalBytes <= MaxBytes /\ Len(batches) <= MaxBatches
    BY <1>1, <1>2
  <2>5. QED
    BY <2>2, <2>3, <2>4, <1>1, <1>2 DEF Flight
<1>5. Ledger
  BY <1>1, <1>2, PayloadsAre DEF Ledger
<1>6. Progress
  <2>1. ASSUME NEW m \in Msgs PROVE OnItsWay(m)
    <3>1. \A p \in Payloads(m) : arrived[p] = 0
      BY <1>1, PayloadsAre
    <3>2. QED
      BY <3>1, PayloadsAre DEF OnItsWay
  <2>2. QED
    BY <2>1 DEF Progress
<1>7. QED
  BY <1>3, <1>4, <1>5, <1>6 DEF IInv

(* While nothing is handed on and no batch is new, arrivals keep the       *)
(* ledger.                                                                 *)
LEMMA LedgerGrows ==
  ASSUME IInv, complete' = complete, Range(batches') \subseteq Range(batches),
         \A q \in AllPayloads : arrived'[q] \in Nat /\ arrived[q] <= arrived'[q]
  PROVE  Ledger'
<1>1. /\ Ledger /\ complete \in [Msgs -> Nat] /\ Range(batches) \subseteq Batches
      /\ \A q \in AllPayloads : arrived[q] \in Nat
      /\ \A b \in Range(batches) : b.got \subseteq 1 .. Count[b.msg]
  BY SequenceIs DEF IInv, TypeInv, Flight, InFlight
<1>2. \A m \in Msgs : \A p \in Payloads(m) : complete[m] <= arrived'[p]
  BY <1>1, PayloadsAre DEF Ledger
<1>3. ASSUME NEW b \in Range(batches)
      PROVE  /\ complete[b.msg] < arrived'[Header(b.msg)]
             /\ \A i \in b.got : complete[b.msg] < arrived'[<<b.msg, i>>]
  <2>1. /\ b.msg \in Msgs /\ complete[b.msg] \in Nat /\ Header(b.msg) \in AllPayloads
        /\ \A i \in b.got : <<b.msg, i>> \in AllPayloads
    BY <1>1, PayloadsAre DEF Batches
  <2>2. /\ complete[b.msg] < arrived[Header(b.msg)]
        /\ \A i \in b.got : complete[b.msg] < arrived[<<b.msg, i>>]
    BY <1>1 DEF Ledger
  <2>3. QED
    BY <2>1, <2>2, <1>1
<1>4. QED
  BY <1>2, <1>3 DEF Ledger

(* What concerns another message than the one that arrives.                *)
LEMMA OtherMessages ==
  ASSUME Assumptions, IInv, NEW m \in Msgs, NEW p \in Payloads(m), Arrives(p),
         complete' = complete \/ complete' = [complete EXCEPT ![m] = @ + 1],
         NEW x \in Msgs, x # m, x \notin dropped, x \notin early,
         disposed' = disposed, \A b \in Of(batches, x) : b \in Range(batches')
  PROVE  disposed' \/ complete'[x] > 0 \/ OnItsWay(x)'
<1>1. disposed \/ complete[x] > 0 \/ OnItsWay(x)
  BY DEF IInv, Progress
<1>2. complete'[x] = complete[x]
  BY DEF IInv, TypeInv
<1>3. \A q \in Payloads(x) : arrived'[q] = arrived[q]
  BY ArrivesIs, PayloadsAre DEF Assumptions, IInv
<1>4. arrived'[Header(x)] = arrived[Header(x)] /\ \A i \in 1 .. Count[x] : arrived'[<<x, i>>] = arrived[<<x, i>>]
  BY <1>3, PayloadsAre
<1>5. \A b \in Of(batches, x) : b \in Of(batches', x)
  BY DEF Of
<1>6. OnItsWay(x) => OnItsWay(x)'
  BY <1>4, <1>5 DEF OnItsWay
<1>7. QED
  BY <1>1, <1>2, <1>6

(* A message in flight: its header arrived, and its batch is the only one. *)
LEMMA MessageInFlight ==
  ASSUME Assumptions, IInv, NEW m \in Keys
  PROVE  /\ m \in Msgs /\ arrived[Header(m)] > 0 /\ Of(batches, m) # {}
         /\ \A b, c \in Of(batches, m) : b = c
<1>1. PICK b \in Range(batches) : b.msg = m
  BY DEF Keys
<1>2. Range(batches) \subseteq Batches /\ Apart(Range(batches))
  BY FlightApart DEF Assumptions, IInv
<1>3. m \in Msgs
  BY <1>1, <1>2 DEF Batches
<1>4. complete[m] \in Nat /\ arrived[Header(m)] \in Nat
  BY <1>3, PayloadsAre DEF IInv, TypeInv
<1>5. complete[m] < arrived[Header(m)]
  BY <1>1 DEF IInv, Ledger
<1>6. QED
  BY <1>1, <1>2, <1>3, <1>4, <1>5 DEF Of, Apart

(* When nothing but the count of arrivals changes.                         *)
LEMMA OnlyArrives ==
  ASSUME Assumptions, IInv, NEW m \in Msgs, NEW p \in Payloads(m), Arrives(p),
         UNCHANGED <<batches, totalBytes, timers, disposed, complete, dropped>>,
         early' = early \/ early' = early \cup {m},
         disposed \/ m \in early' \/ (m \in Keys /\ \E b \in Of(batches, m) : p = Header(m) \/ p[2] \in b.got)
  PROVE  IInv'
<1>1. /\ arrived' \in [AllPayloads -> 0 .. Copies] /\ sent' = sent
      /\ \A q \in AllPayloads : arrived'[q] \in Nat /\ arrived[q] <= arrived'[q]
      /\ \A q \in AllPayloads : q # p => arrived'[q] = arrived[q]
  BY ArrivesIs DEF Assumptions, IInv, Arrives
<1>2. TypeInv'
  BY <1>1 DEF IInv, TypeInv
<1>3. Flight'
  BY DEF IInv, Flight, InFlight
<1>4. Ledger'
  BY <1>1, LedgerGrows
<1>5. ASSUME NEW x \in Msgs, x \notin dropped', x \notin early' PROVE disposed' \/ complete'[x] > 0 \/ OnItsWay(x)'
  <2>1. CASE x # m
    BY <2>1, <1>5, OtherMessages DEF Of
  <2>2. CASE x = m /\ ~ disposed
    <3>1. m \in Keys /\ x \notin dropped /\ x \notin early
      BY <2>2, <1>5
    <3>2. PICK b \in Of(batches, m) : p = Header(m) \/ p[2] \in b.got
      BY <2>2, <1>5
    <3>3. arrived[Header(m)] > 0 /\ \A c \in Of(batches, m) : c = b
      BY <3>1, <3>2, MessageInFlight
    <3>4. complete[m] > 0 \/ \A i \in 1 .. Count[m] : arrived[<<m, i>>] > 0 => i \in b.got
      BY <3>1, <3>3, <2>2 DEF IInv, Progress, OnItsWay
    <3>5. \A i \in 1 .. Count[m] : <<m, i>> # p => arrived'[<<m, i>>] = arrived[<<m, i>>]
      BY <1>1, PayloadsAre
    <3>6. \A i \in 1 .. Count[m] : <<m, i>> = p => i \in b.got
      BY <3>2, PayloadsAre
    <3>7. complete[m] > 0 \/ \A i \in 1 .. Count[m] : arrived'[<<m, i>>] > 0 => i \in b.got
      BY <3>4, <3>5, <3>6
    <3>8. b \in Of(batches', m)
      BY <3>2 DEF Of
    <3>9. QED
      BY <3>7, <3>8, <2>2 DEF OnItsWay
  <2>3. QED
    BY <2>1, <2>2
<1>6. Progress'
  BY <1>5 DEF Progress
<1>7. QED
  BY <1>2, <1>3, <1>4, <1>6 DEF IInv

(* handleFragmentHeader keeps the invariant: the batch is one more in      *)
(* flight, counted by a header that was not counted before.                *)
LEMMA HeaderStep ==
  ASSUME Assumptions, IInv, NEW m \in Msgs, HandleFragmentHeader(m)
  PROVE  IInv'
<1> DEFINE p == Header(m)
<1>1. Arrives(p) /\ p \in Payloads(m) /\ UNCHANGED <<disposed, complete, early>>
  BY PayloadsAre DEF HandleFragmentHeader
<1>2. CASE disposed \/ m \in Keys
  <2>1. UNCHANGED <<batches, totalBytes, timers, dropped>>
    BY <1>2 DEF HandleFragmentHeader
  <2>2. m \in Keys => Of(batches, m) # {}
    BY MessageInFlight
  <2>3. QED
    BY <1>1, <1>2, <2>1, <2>2, OnlyArrives
<1>3. CASE ~ disposed /\ m \notin Keys
  <2>1. PICK out \in SUBSET Range(batches), n \in 1 .. Copies :
           /\ batches' \in Seq(Batches) /\ totalBytes' \in Nat
           /\ timers' \subseteq Msgs \X (1 .. Copies)
           /\ Range(batches') = (Range(batches) \ out) \cup {NewBatch(m, n)}
           /\ dropped' = dropped \cup MsgsOf(out)
           /\ Flight'
    BY <1>3, HeaderOpens
  <2> DEFINE nb == NewBatch(m, n)
  <2>2. nb.msg = m /\ nb.got = {}
    BY DEF NewBatch
  <2> HIDE DEF nb
  <2>3. /\ arrived' \in [AllPayloads -> 0 .. Copies] /\ sent' = sent
        /\ arrived'[p] = arrived[p] + 1 /\ arrived[p] \in Nat /\ p \in AllPayloads
        /\ \A q \in AllPayloads : q # p => arrived'[q] = arrived[q]
        /\ \A q \in AllPayloads : arrived'[q] \in Nat /\ arrived[q] \in Nat /\ arrived[q] <= arrived'[q]
    BY <1>1, ArrivesIs DEF Assumptions, IInv, Arrives
  <2>4. /\ Range(batches) \subseteq Batches /\ \A b \in out : b.msg \in Msgs
    BY FlightApart DEF Assumptions, IInv, Batches
  <2>5. TypeInv'
    <3>1. dropped' \subseteq Msgs
      BY <2>1, <2>4 DEF IInv, TypeInv, MsgsOf
    <3>2. QED
      BY <3>1, <2>1, <2>3, <1>1 DEF IInv, TypeInv
  <2>6. Ledger'
    <3>1. /\ complete \in [Msgs -> Nat] /\ Ledger
          /\ \A b \in Range(batches) : b.got \subseteq 1 .. Count[b.msg] /\ b.msg \in Msgs
      BY <2>4 DEF IInv, TypeInv, Flight, InFlight, Batches
    <3>2. \A x \in Msgs : \A q \in Payloads(x) : complete[x] <= arrived'[q]
      BY <3>1, <2>3, PayloadsAre DEF Ledger
    <3>3. ASSUME NEW b \in Range(batches)
          PROVE  /\ complete[b.msg] < arrived'[Header(b.msg)]
                 /\ \A i \in b.got : complete[b.msg] < arrived'[<<b.msg, i>>]
      <4>1. /\ complete[b.msg] \in Nat /\ Header(b.msg) \in AllPayloads
            /\ \A i \in b.got : <<b.msg, i>> \in AllPayloads
        BY <3>1, PayloadsAre
      <4>2. /\ complete[b.msg] < arrived[Header(b.msg)]
            /\ \A i \in b.got : complete[b.msg] < arrived[<<b.msg, i>>]
        BY <3>1 DEF Ledger
      <4>3. QED
        BY <4>1, <4>2, <2>3
    <3>4. complete[m] < arrived'[Header(m)]
      <4>1. complete[m] <= arrived[p] /\ complete[m] \in Nat
        BY <3>1, <1>1 DEF Ledger
      <4>2. QED
        BY <4>1, <2>3
    <3>5. QED
      BY <3>2, <3>3, <3>4, <2>1, <2>2, <1>1 DEF Ledger, nb
  <2>7. ASSUME NEW x \in Msgs, x \notin dropped', x \notin early' PROVE disposed' \/ complete'[x] > 0 \/ OnItsWay(x)'
    <3>1. x \notin dropped /\ x \notin early /\ \A b \in out : b.msg # x
      BY <2>7, <2>1, <1>1 DEF MsgsOf
    <3>2. CASE x # m
      <4>1. \A b \in Of(batches, x) : b \in Range(batches')
        BY <3>1, <2>1 DEF Of
      <4>2. QED
        BY <3>1, <3>2, <4>1, <1>1, OtherMessages
    <3>3. CASE x = m
      <4>1. complete[m] > 0 \/ \A i \in 1 .. Count[m] : arrived[<<m, i>>] = 0
        <5>1. Of(batches, m) = {}
          BY <1>3 DEF Of, Keys
        <5>2. complete[m] > 0 \/ OnItsWay(m)
          BY <3>1, <3>3, <1>3 DEF IInv, Progress
        <5>3. QED
          BY <5>1, <5>2 DEF OnItsWay
      <4>2. \A i \in 1 .. Count[m] : arrived'[<<m, i>>] = arrived[<<m, i>>]
        BY <2>3, PayloadsAre
      <4>3. nb \in Of(batches', m)
        BY <2>1, <2>2 DEF Of, nb
      <4>4. QED
        BY <4>1, <4>2, <4>3, <3>3, <1>1 DEF OnItsWay
    <3>4. QED
      BY <3>2, <3>3
  <2>8. Progress'
    BY <2>7 DEF Progress
  <2>9. QED
    BY <2>1, <2>5, <2>6, <2>8 DEF IInv
<1>4. QED
  BY <1>2, <1>3

(* handleFragmentData keeps the invariant: a fragment that arrives early   *)
(* or twice changes only what arrived; another one moves its message on.   *)
LEMMA DataStep ==
  ASSUME Assumptions, IInv, NEW m \in Msgs, NEW i \in 1 .. Count[m], HandleFragmentData(m, i)
  PROVE  IInv'
<1> DEFINE p == <<m, i>>
<1>1. Arrives(p) /\ p \in Payloads(m) /\ p # Header(m) /\ p[1] = m /\ p[2] = i /\ UNCHANGED disposed
  BY PayloadsAre DEF HandleFragmentData
<1> HIDE DEF p
<1>2. CASE disposed
  <2>1. UNCHANGED <<batches, totalBytes, timers, complete, dropped, early>>
    BY <1>2 DEF HandleFragmentData
  <2>2. QED
    BY <1>1, <1>2, <2>1, OnlyArrives
<1>3. CASE ~ disposed /\ m \notin Keys
  <2>1. early' = early \cup {m} /\ UNCHANGED <<batches, totalBytes, timers, complete, dropped>>
    BY <1>3 DEF HandleFragmentData
  <2>2. QED
    BY <1>1, <2>1, OnlyArrives
<1>4. CASE ~ disposed /\ m \in Keys /\ Duplicate(batches[Place(batches, m)], i)
  <2>1. UNCHANGED <<batches, totalBytes, timers, complete, dropped, early>>
    BY <1>4 DEF HandleFragmentData
  <2>2. batches \in Seq(Batches) /\ Distinct(batches) /\ Of(batches, m) # {}
    BY <1>4, MessageInFlight DEF IInv, TypeInv, Flight
  <2>3. batches[Place(batches, m)] \in Of(batches, m)
    BY <2>2, PlaceIs
  <2>4. p[2] \in batches[Place(batches, m)].got
    BY <1>1, <1>4 DEF Duplicate
  <2>5. QED
    BY <1>1, <1>4, <2>1, <2>3, <2>4, OnlyArrives
<1>5. CASE ~ disposed /\ m \in Keys /\ ~ Duplicate(batches[Place(batches, m)], i)
  <2>1. PICK b \in Range(batches), c \in Batches :
          \E out \in SUBSET ((Range(batches) \ {b}) \cup {c}), whole \in SUBSET {c} :
           /\ b.msg = m /\ i \notin b.got
           /\ c.msg = m /\ c.timer = b.timer /\ c.got = b.got \cup {i}
           /\ batches' \in Seq(Batches) /\ totalBytes' \in Nat
           /\ timers' \subseteq Msgs \X (1 .. Copies)
           /\ Range(batches') = (((Range(batches) \ {b}) \cup {c}) \ out) \ whole
           /\ dropped' = dropped \cup MsgsOf(out)
           /\ whole = {} => complete' = complete
           /\ whole # {} => c.got = 1 .. Count[m] /\ complete' = [complete EXCEPT ![m] = @ + 1]
           /\ Flight'
    BY <1>5, DataAdds
  <2>2. PICK out \in SUBSET ((Range(batches) \ {b}) \cup {c}), whole \in SUBSET {c} :
           /\ b.msg = m /\ i \notin b.got
           /\ c.msg = m /\ c.timer = b.timer /\ c.got = b.got \cup {i}
           /\ batches' \in Seq(Batches) /\ totalBytes' \in Nat
           /\ timers' \subseteq Msgs \X (1 .. Copies)
           /\ Range(batches') = (((Range(batches) \ {b}) \cup {c}) \ out) \ whole
           /\ dropped' = dropped \cup MsgsOf(out)
           /\ whole = {} => complete' = complete
           /\ whole # {} => c.got = 1 .. Count[m] /\ complete' = [complete EXCEPT ![m] = @ + 1]
           /\ Flight'
    BY <2>1
  <2>3. /\ arrived' \in [AllPayloads -> 0 .. Copies] /\ sent' = sent
        /\ arrived'[p] = arrived[p] + 1 /\ arrived[p] \in Nat /\ p \in AllPayloads
        /\ \A q \in AllPayloads : q # p => arrived'[q] = arrived[q]
        /\ \A q \in AllPayloads : arrived'[q] \in Nat /\ arrived[q] \in Nat /\ arrived[q] <= arrived'[q]
    BY <1>1, ArrivesIs DEF Assumptions, IInv, Arrives
  <2>4. /\ Range(batches) \subseteq Batches /\ (\A d \in out : d.msg \in Msgs) /\ Apart(Range(batches))
        /\ early' = early /\ complete \in [Msgs -> Nat] /\ Ledger
        /\ \A d \in Range(batches) : d.got \subseteq 1 .. Count[d.msg] /\ d.msg \in Msgs
    <3>1. Range(batches) \subseteq Batches /\ Apart(Range(batches))
      BY FlightApart DEF Assumptions, IInv
    <3>2. \A d \in Range(batches) : d.got \subseteq 1 .. Count[d.msg]
      BY DEF IInv, Flight, InFlight
    <3>3. early' = early
      BY <1>5 DEF HandleFragmentData
    <3>4. QED
      BY <3>1, <3>2, <3>3 DEF IInv, TypeInv, Batches
  <2>5. /\ complete' \in [Msgs -> Nat]
        /\ \A x \in Msgs : x # m => complete'[x] = complete[x]
        /\ complete'[m] = complete[m] \/ (whole # {} /\ complete'[m] = complete[m] + 1)
        /\ whole = {} => complete'[m] = complete[m]
    BY <2>2, <2>4
  <2>6. TypeInv'
    <3>1. dropped' \subseteq Msgs
      BY <2>2, <2>4 DEF IInv, TypeInv, MsgsOf
    <3>2. QED
      BY <3>1, <2>2, <2>3, <2>4, <2>5, <1>1 DEF IInv, TypeInv
  <2>7. ASSUME NEW d \in Range(batches)
        PROVE  /\ complete[d.msg] < arrived[Header(d.msg)] /\ complete[d.msg] < arrived'[Header(d.msg)]
               /\ \A l \in d.got : complete[d.msg] < arrived[<<d.msg, l>>] /\ complete[d.msg] < arrived'[<<d.msg, l>>]
               /\ complete[d.msg] \in Nat /\ Header(d.msg) \in AllPayloads
    <3>1. /\ complete[d.msg] \in Nat /\ Header(d.msg) \in AllPayloads
          /\ \A l \in d.got : <<d.msg, l>> \in AllPayloads
      BY <2>4, PayloadsAre
    <3>2. /\ complete[d.msg] < arrived[Header(d.msg)]
          /\ \A l \in d.got : complete[d.msg] < arrived[<<d.msg, l>>]
      BY <2>4 DEF Ledger
    <3>3. QED
      BY <3>1, <3>2, <2>3
  <2>8. complete[m] < arrived'[p] /\ complete[m] \in Nat
    <3>1. complete[m] <= arrived[p] /\ complete[m] \in Nat
      BY <2>4, <1>1 DEF Ledger
    <3>2. QED
      BY <3>1, <2>3
  <2>9. /\ complete[m] < arrived'[Header(m)]
        /\ \A l \in c.got : complete[m] < arrived'[<<m, l>>]
    BY <2>2, <2>7, <2>8 DEF p
  <2>10. Ledger'
    <3>1. ASSUME NEW x \in Msgs, NEW q \in Payloads(x) PROVE complete'[x] <= arrived'[q]
      <4>1. q \in AllPayloads /\ complete[x] <= arrived[q] /\ complete[x] \in Nat
        BY <2>4, PayloadsAre DEF Ledger
      <4>2. CASE complete'[x] = complete[x]
        BY <4>1, <4>2, <2>3
      <4>3. CASE x = m /\ whole # {} /\ complete'[m] = complete[m] + 1
        <5>1. complete[m] < arrived'[q]
          BY <4>3, <2>2, <2>9, PayloadsAre
        <5>2. arrived'[q] \in Nat
          BY <4>1, <2>3
        <5>3. QED
          BY <5>1, <5>2, <4>1, <4>3
      <4>4. QED
        BY <4>2, <4>3, <2>5
    <3>2. ASSUME NEW d \in Range(batches')
          PROVE  /\ complete'[d.msg] < arrived'[Header(d.msg)]
                 /\ \A l \in d.got : complete'[d.msg] < arrived'[<<d.msg, l>>]
      <4>1. CASE d = c
        <5>1. whole = {} /\ complete'[m] = complete[m]
          BY <4>1, <2>2, <2>5
        <5>2. QED
          BY <4>1, <5>1, <2>2, <2>9
      <4>2. CASE d # c
        <5>1. d \in Range(batches) /\ d # b
          BY <4>2, <2>2
        <5>2. d.msg # m /\ d.msg \in Msgs
          BY <5>1, <2>2, <2>4 DEF Apart
        <5>3. QED
          BY <5>1, <5>2, <2>5, <2>7
      <4>3. QED
        BY <4>1, <4>2
    <3>3. QED
      BY <3>1, <3>2 DEF Ledger
  <2>11. ASSUME NEW x \in Msgs, x \notin dropped', x \notin early' PROVE disposed' \/ complete'[x] > 0 \/ OnItsWay(x)'
    <3>1. x \notin dropped /\ x \notin early /\ \A d \in out : d.msg # x
      BY <2>11, <2>2, <2>4 DEF MsgsOf
    <3>2. CASE x # m
      <4>1. \A d \in Of(batches, x) : d \in Range(batches')
        BY <3>1, <3>2, <2>2 DEF Of
      <4>2. complete' = complete \/ complete' = [complete EXCEPT ![m] = @ + 1]
        BY <2>2
      <4>3. QED
        BY <3>1, <3>2, <4>1, <4>2, <1>1, OtherMessages
    <3>3. CASE x = m /\ whole # {}
      <4>1. complete'[m] = complete[m] + 1 /\ complete[m] \in Nat
        BY <3>3, <2>2, <2>4
      <4>2. QED
        BY <4>1, <3>3
    <3>4. CASE x = m /\ whole = {}
      <4>1. c \in Of(batches', m)
        BY <3>1, <3>4, <2>2 DEF Of
      <4>2. b \in Of(batches, m) /\ arrived[Header(m)] > 0 /\ \A d \in Of(batches, m) : d = b
        BY <1>5, <2>2, MessageInFlight DEF Of
      <4>3. complete[m] > 0 \/ \A l \in 1 .. Count[m] : arrived[<<m, l>>] > 0 => l \in b.got
        BY <3>1, <3>4, <4>2, <1>5 DEF IInv, Progress, OnItsWay
      <4>4. \A l \in 1 .. Count[m] : l # i => arrived'[<<m, l>>] = arrived[<<m, l>>]
        BY <2>3, PayloadsAre DEF p
      <4>5. complete[m] > 0 \/ \A l \in 1 .. Count[m] : arrived'[<<m, l>>] > 0 => l \in c.got
        BY <4>3, <4>4, <2>2
      <4>6. QED
        BY <4>1, <4>5, <3>4, <2>5 DEF OnItsWay
    <3>5. QED
      BY <3>2, <3>3, <3>4
  <2>12. Progress'
    BY <2>11 DEF Progress
  <2>13. QED
    BY <2>2, <2>6, <2>10, <2>12 DEF IInv
<1>6. QED
  BY <1>2, <1>3, <1>4, <1>5

(* handleTimeout keeps the invariant: the timer is of the batch it         *)
(* removes.                                                                *)
LEMMA TimeoutStep ==
  ASSUME Assumptions, IInv, NEW t \in timers, HandleTimeout(t)
  PROVE  IInv'
<1> DEFINE bats == Range(batches)
           m == t[1]
           part == Of(batches, m)
<1>1. /\ timers' = timers \ {t} /\ batches' = Without(batches, m)
      /\ totalBytes' = Released(totalBytes, part) /\ dropped' = dropped \cup MsgsOf(part)
      /\ UNCHANGED <<sent, arrived, disposed, complete, early>>
  BY DEF HandleTimeout
<1>2. /\ batches \in Seq(Batches) /\ Distinct(batches) /\ Len(batches) \in Nat /\ Len(batches) <= MaxBatches
      /\ MaxBatches \in Nat /\ bats \subseteq Batches /\ Apart(bats)
      /\ timers = {b.timer : b \in bats} /\ \A b \in bats : InFlight(b)
  BY FlightApart DEF Assumptions, IInv, TypeInv, Flight, LimitAssumption
<1>3. PICK b \in bats : b.timer = t
  BY <1>2
<1>4. b.msg = m /\ part = {b}
  BY <1>2, <1>3 DEF InFlight, Of, Apart
<1> HIDE DEF m, part
<1>5. /\ Without(batches, m) \in Seq(Batches) /\ Len(Without(batches, m)) <= Len(batches)
      /\ Distinct(Without(batches, m)) /\ Range(Without(batches, m)) = bats \ Of(batches, m)
  BY <1>2, WithoutIs
<1>6. Range(batches') = bats \ part
  BY <1>1, <1>5 DEF part
<1>7. part \in SUBSET bats
  BY <1>3, <1>4
<1>8. /\ Released(totalBytes, part) = Bytes(bats \ part)
      /\ Released(totalBytes, part) \in Nat /\ Released(totalBytes, part) <= MaxBytes
      /\ Cleared(part) = {d.timer : d \in bats \ part}
  BY <1>7, GivenUp DEF Assumptions, IInv
<1>9. timers' = {d.timer : d \in Range(batches')}
  BY <1>1, <1>3, <1>4, <1>6, <1>8 DEF Cleared
<1>10. Flight'
  <2>1. Len(batches') <= MaxBatches
    <3>1. Len(batches') <= Len(batches) /\ Len(batches') \in Nat
      BY <1>1, <1>5
    <3>2. QED
      BY <3>1, <1>2
  <2>2. Distinct(batches') /\ totalBytes' = Bytes(Range(batches')) /\ totalBytes' <= MaxBytes
    BY <1>1, <1>5, <1>6, <1>8
  <2>3. \A d \in Range(batches') : InFlight(d)
    BY <1>2, <1>6
  <2>4. QED
    BY <1>9, <2>1, <2>2, <2>3 DEF Flight, InFlight
<1>11. TypeInv'
  <2>1. dropped' \subseteq Msgs
    BY <1>1, <1>2, <1>7 DEF IInv, TypeInv, MsgsOf, Batches
  <2>2. QED
    BY <2>1, <1>1, <1>5, <1>8 DEF IInv, TypeInv
<1>12. Ledger'
  <2>1. \A q \in AllPayloads : arrived'[q] \in Nat /\ arrived[q] <= arrived'[q]
    BY <1>1 DEF IInv, TypeInv
  <2>2. QED
    BY <2>1, <1>1, <1>6, LedgerGrows
<1>13. Progress'
  <2>1. ASSUME NEW x \in Msgs, x \notin dropped', x \notin early' PROVE disposed' \/ complete'[x] > 0 \/ OnItsWay(x)'
    <3>1. x \notin dropped /\ x \notin early /\ x # m
      BY <2>1, <1>1, <1>4 DEF MsgsOf
    <3>2. disposed \/ complete[x] > 0 \/ OnItsWay(x)
      BY <3>1 DEF IInv, Progress
    <3>3. \A d \in Of(batches, x) : d \in Of(batches', x)
      BY <3>1, <1>4, <1>6 DEF Of
    <3>4. QED
      BY <3>2, <3>3, <1>1 DEF OnItsWay
  <2>2. QED
    BY <2>1 DEF Progress
<1>14. QED
  BY <1>10, <1>11, <1>12, <1>13 DEF IInv

(* dispose keeps the invariant.                                            *)
LEMMA DisposeStep == ASSUME Assumptions, IInv, Dispose PROVE IInv'
<1>1. /\ disposed' = TRUE /\ timers' = Cleared(Range(batches)) /\ batches' = <<>> /\ totalBytes' = 0
      /\ UNCHANGED <<sent, arrived, complete, dropped, early>>
      /\ MaxBatches \in Nat /\ MaxBytes \in Nat
  BY DEF Dispose, Assumptions, LimitAssumption
<1>2. Range(batches') = {} /\ Len(batches') = 0 /\ batches' \in Seq(Batches) /\ Distinct(batches')
  BY <1>1 DEF Range, Distinct
<1>3. timers' = {}
  BY <1>1 DEF Cleared, IInv, Flight
<1>4. Held({}) = {} /\ Cardinality({}) = 0
  BY FS_EmptySet DEF Held
<1>5. Bytes(Range(batches')) = 0
  BY <1>2, <1>4 DEF Bytes
<1>6. Flight'
  <2>1. {b.timer : b \in Range(batches')} = {} /\ totalBytes' <= MaxBytes /\ Len(batches') <= MaxBatches
    BY <1>1, <1>2
  <2>2. QED
    BY <2>1, <1>1, <1>2, <1>3, <1>5 DEF Flight
<1>7. TypeInv'
  BY <1>1, <1>2, <1>3 DEF IInv, TypeInv
<1>8. Ledger'
  <2>1. \A q \in AllPayloads : arrived'[q] \in Nat /\ arrived[q] <= arrived'[q]
    BY <1>1 DEF IInv, TypeInv
  <2>2. QED
    BY <2>1, <1>1, <1>2, LedgerGrows
<1>9. Progress'
  BY <1>1 DEF Progress
<1>10. QED
  BY <1>6, <1>7, <1>8, <1>9 DEF IInv

(* Every step keeps it.                                                    *)
LEMMA Step == ASSUME Assumptions, IInv, [Next]_vars PROVE IInv'
<1>1. ASSUME UNCHANGED <<arrived, batches, totalBytes, timers, disposed, complete, dropped, early>>, sent' \subseteq Msgs
      PROVE  IInv'
  <2>1. TypeInv' /\ Flight' /\ Ledger'
    BY <1>1 DEF IInv, TypeInv, Flight, InFlight, Ledger
  <2>2. Progress'
    BY <1>1 DEF IInv, Progress, OnItsWay
  <2>3. QED
    BY <2>1, <2>2 DEF IInv
<1>2. ASSUME NEW m \in Msgs, Send(m) PROVE IInv'
  BY <1>1, <1>2 DEF Send, IInv, TypeInv
<1>3. CASE UNCHANGED vars
  BY <1>1, <1>3 DEF vars, IInv, TypeInv
<1>4. QED
  BY <1>2, <1>3, HeaderStep, DataStep, TimeoutStep, DisposeStep DEF Next

(* So it always holds.                                                     *)
LEMMA Invariant == ASSUME Assumptions PROVE Spec => []IInv
<1>1. Init => IInv
  BY InitInv
<1>2. IInv /\ [Next]_vars => IInv'
  BY Step
<1>3. QED
  BY <1>1, <1>2, PTL DEF Spec

(* The values of the reassembler's state are what the code expects them    *)
(* to be, and no message is handed on more often than the transport may    *)
(* deliver one of its payloads.                                            *)
THEOREM TypeCorrect ==
  ASSUME CountAssumption, LimitAssumption PROVE Spec => []TypeOK
<1>1. Assumptions
  BY DEF Assumptions
<1>2. ASSUME IInv PROVE TypeOK
  <2>1. complete \in [Msgs -> 0 .. Copies]
    <3>1. ASSUME NEW m \in Msgs PROVE complete[m] \in 0 .. Copies
      <4>1. complete[m] <= arrived[Header(m)] /\ arrived[Header(m)] \in 0 .. Copies /\ complete[m] \in Nat
        BY <1>2, PayloadsAre DEF IInv, TypeInv, Ledger
      <4>2. Copies \in Nat
        BY DEF LimitAssumption
      <4>3. QED
        BY <4>1, <4>2
    <3>2. QED
      BY <3>1, <1>2 DEF IInv, TypeInv
  <2>2. QED
    BY <2>1, <1>2 DEF IInv, TypeInv, TypeOK
<1>3. QED
  BY <1>1, <1>2, Invariant, PTL

(* Whatever arrives in whatever order, is evicted, times out or is         *)
(* disposed of, the byte count is that of the batches in flight, and it    *)
(* and the number of batches stay within their limits.                     *)
THEOREM LimitsKept ==
  ASSUME CountAssumption, LimitAssumption PROVE Spec => []WithinLimits
<1>1. Assumptions
  BY DEF Assumptions
<1>2. IInv => WithinLimits
  BY DEF IInv, Flight, WithinLimits
<1>3. QED
  BY <1>1, <1>2, Invariant, PTL

(* Each batch in flight has its own timer and no timer is left of a batch  *)
(* that is gone, so that none ends a later batch of the same id.           *)
THEOREM TimersOwned ==
  ASSUME CountAssumption, LimitAssumption PROVE Spec => []OwnTimers
<1>1. Assumptions
  BY DEF Assumptions
<1>2. IInv => OwnTimers
  BY DEF IInv, Flight, OwnTimers, Distinct
<1>3. QED
  BY <1>1, <1>2, Invariant, PTL

(* No message is handed on more often than each of its payloads arrived.   *)
THEOREM NoneMadeUp ==
  ASSUME CountAssumption, LimitAssumption PROVE Spec => []NeverMadeUp
<1>1. Assumptions
  BY DEF Assumptions
<1>2. ASSUME IInv PROVE NeverMadeUp
  <2>1. ASSUME NEW m \in Msgs, NEW p \in Payloads(m)
        PROVE  complete[m] + (IF \E b \in Of(batches, m) : p = Header(m) \/ p[2] \in b.got THEN 1 ELSE 0) <= arrived[p]
    <3>1. complete[m] \in Nat /\ arrived[p] \in Nat /\ complete[m] <= arrived[p]
      BY <1>2, PayloadsAre DEF IInv, TypeInv, Ledger
    <3>2. ASSUME NEW b \in Of(batches, m), p = Header(m) \/ p[2] \in b.got PROVE complete[m] < arrived[p]
      <4>1. b \in Range(batches) /\ b.msg = m
        BY DEF Of
      <4>2. p = Header(m) \/ p = <<m, p[2]>>
        BY PayloadsAre
      <4>3. QED
        BY <4>1, <4>2, <3>2, <1>2 DEF IInv, Ledger
    <3>3. QED
      BY <3>1, <3>2
  <2>2. QED
    BY <2>1 DEF NeverMadeUp
<1>3. QED
  BY <1>1, <1>2, Invariant, PTL

(* A message that arrived whole, header first, was handed on unless its    *)
(* batch was evicted or timed out or the reassembler disposed of.          *)
THEOREM WholeHandedOn ==
  ASSUME CountAssumption, LimitAssumption PROVE Spec => []HandedOn
<1>1. Assumptions
  BY DEF Assumptions
<1>2. ASSUME IInv PROVE HandedOn
  <2>1. ASSUME NEW m \in Msgs, m \notin dropped, m \notin early, \A p \in Payloads(m) : arrived[p] > 0
        PROVE  disposed \/ complete[m] > 0
    <3>1. disposed \/ complete[m] > 0 \/ OnItsWay(m)
      BY <1>2, <2>1 DEF IInv, Progress
    <3>2. /\ arrived[Header(m)] > 0 /\ arrived[Header(m)] \in Nat
          /\ \A i \in 1 .. Count[m] : arrived[<<m, i>>] > 0
      BY <1>2, <2>1, PayloadsAre DEF IInv, TypeInv
    <3>3. ASSUME NEW b \in Of(batches, m), \A i \in 1 .. Count[m] : i \in b.got PROVE FALSE
      <4>1. b.msg = m /\ InFlight(b)
        BY <1>2 DEF Of, IInv, Flight
      <4>2. QED
        BY <4>1, <3>3 DEF InFlight
    <3>4. CASE OnItsWay(m)
      <4>1. CASE arrived[Header(m)] = 0
        BY <4>1, <3>2
      <4>2. CASE \E b \in Of(batches, m) : \A i \in 1 .. Count[m] : arrived[<<m, i>>] > 0 => i \in b.got
        <5>1. PICK b \in Of(batches, m) : \A i \in 1 .. Count[m] : arrived[<<m, i>>] > 0 => i \in b.got
          BY <4>2
        <5>2. \A i \in 1 .. Count[m] : i \in b.got
          BY <5>1, <3>2, Zenon
        <5>3. QED
          BY <5>2, <3>3
      <4>3. QED
        BY <3>4, <4>1, <4>2 DEF OnItsWay
    <3>5. QED
      BY <3>1, <3>4
  <2>2. QED
    BY <2>1 DEF HandedOn
<1>3. QED
  BY <1>1, <1>2, Invariant, PTL
=============================================================================
